---- MODULE Spec2Model ----
(***************************************************************************)
(* pit: task manager, checkpoint engine, reaper and the command handlers   *)
(* that drive them, over an abstract git repository, the sqlite tasks      *)
(* table and the tmux server on pit's socket.                              *)
(*                                                                         *)
(* Names are sequences of tokens joined by "-" in the program:             *)
(* <<"shell","a">> is the task name "shell-a", so that format!("pit-{}")   *)
(* and format!("pit-shell-{}") are modelled by what they build.            *)
(***************************************************************************)
EXTENDS Naturals, Sequences, FiniteSets, TLC

\* ---------------------------------------------------------------- bounds
MaxCommits == 3      \* commits the repository may hold, the root included
MaxCheckpoints == 3  \* checkpoint tags per task name
MaxTasks == 2        \* rows ever inserted (sqlite AUTOINCREMENT values)

\* ----------------------------------------------------------- value spaces
Names == { <<"a">>, <<"shell", "a">> }
EmptyName == << >>
CreateNames == Names \cup {EmptyName}
NoSession == << >>
NoSessionId == << >>
NoPrompt == << >>
NoRef == 0
RootCommit == 1
Statuses == {"idle", "running", "done", "error"}
DefaultBranchNames == {"main", "master", "develop"}

BranchNames == { <<"pit/">> \o n : n \in Names }
WorktreePaths == { <<".pit/worktrees/">> \o n : n \in Names }

VARIABLES
  rows,          \* the tasks table: a set of row records
  nextId,        \* next AUTOINCREMENT id
  branch,        \* refs/heads/<branch name>: commit, or NoRef
  worktree,      \* worktree directory at a path: "absent", "clean", "dirty"
  parent,        \* the commit graph: parent[c] is the parent of commit c
  mainHead,      \* head of the repository's default branch
  defaultName,   \* name of the repository's default branch
  cpTags,        \* tags pit/checkpoint/<task>/<index>
  preRollback,   \* tag pit/pre-rollback/<task>: commit, or NoRef
  sessions,      \* live sessions of the tmux server on socket "pit"
  cmds,          \* per tmux session name: the command the session runs
  nextUuid,      \* number of the next identifier Uuid::new_v4 returns
  ret,           \* outcome of the operation that completed last
  moved,         \* history: since the name's last checkpoint was created, its
                 \* branch was deleted or reset below that checkpoint
  fwd,           \* history: <<task, index>> of the checkpoints created while
                 \* moved was false
  cpHead,        \* history: the name's branch head when the creation of its
                 \* last checkpoint returned
  pc,            \* per pit process: where it is in its command
  loc,           \* per pit process: the command's local variables
  inp,           \* argument of the function under test
  out,           \* its result
  schema_version, \* the versions recorded in the table schema_version
  applied,       \* per migration: how many times its SQL took effect
  config_toml    \* the lines of the file config.toml

world == << rows, nextId, branch, worktree, parent, mainHead, defaultName,
            cpTags, preRollback, sessions, cmds, nextUuid >>

hist == << moved, fwd, cpHead >>

procs == << pc, loc >>

pure == << inp, out >>

schema == << schema_version, applied >>

config == << config_toml >>

vars == << world, ret, hist, procs, pure, schema, config >>

\* The shared state the operations read and write, as one record.
World ==
  [ rows |-> rows, nextId |-> nextId, branch |-> branch, worktree |-> worktree,
    parent |-> parent, mainHead |-> mainHead, defaultName |-> defaultName,
    cpTags |-> cpTags, preRollback |-> preRollback, sessions |-> sessions,
    cmds |-> cmds, nextUuid |-> nextUuid ]

SetWorld(w) ==
  /\ rows' = w.rows
  /\ nextId' = w.nextId
  /\ branch' = w.branch
  /\ worktree' = w.worktree
  /\ parent' = w.parent
  /\ mainHead' = w.mainHead
  /\ defaultName' = w.defaultName
  /\ cpTags' = w.cpTags
  /\ preRollback' = w.preRollback
  /\ sessions' = w.sessions
  /\ cmds' = w.cmds
  /\ nextUuid' = w.nextUuid

TagsOf(tags, n) == {t \in tags : t.task = n}

\* The model's bounds, as a guard on the state an operation leads to.
WithinBounds(w) ==
  /\ Len(w.parent) <= MaxCommits
  /\ w.nextId <= MaxTasks + 1
  /\ w.nextUuid <= MaxTasks + 1
  /\ \A n \in Names : Cardinality(TagsOf(w.cpTags, n)) <= MaxCheckpoints

Result(ok, val, w) == [ok |-> ok, val |-> val, w |-> w]

\* ------------------------------------------------------------------- git
RECURSIVE Ancestors(_, _)
Ancestors(par, c) ==
  IF c = NoRef THEN {} ELSE {c} \cup Ancestors(par, par[c])

\* git rev-list <from>..<to> --count
RevListCount(par, from, to) ==
  Cardinality(Ancestors(par, to) \ Ancestors(par, from))

\* `git worktree add <path> <branch>` leaves <branch> checked out at <path>:
\* the worktree's HEAD is that branch.
CheckedOut(wt) == <<"pit/">> \o Tail(wt)

\* git commit in the worktree at wt
GitCommit(w, wt) ==
  LET c == Len(w.parent) + 1
      br == CheckedOut(wt)
  IN [w EXCEPT !.parent = Append(w.parent, w.branch[br]),
               !.branch = [w.branch EXCEPT ![br] = c],
               !.worktree = [w.worktree EXCEPT ![wt] = "clean"]]

\* ----------------------------------------------------------- tmux adapter
session_name(task_name) == <<"pit">> \o task_name

shell_session_name(task_name) == <<"pit", "shell">> \o task_name

SessionNames ==
  {session_name(n) : n \in Names} \cup {shell_session_name(n) : n \in Names}

NoCmd == << >>

session_exists(w, name) == name \in w.sessions

kill_session(w, name) ==
  IF name \in w.sessions
  THEN [w EXCEPT !.sessions = w.sessions \ {name},
                 !.cmds = [w.cmds EXCEPT ![name] = NoCmd]]
  ELSE w

create_session_with_cmd(w, name, cwd, cmd) ==
  IF name \in w.sessions \/ w.worktree[cwd] = "absent"
  THEN Result(FALSE, 0, w)
  ELSE Result(TRUE, 0, [w EXCEPT !.sessions = w.sessions \cup {name},
                                 !.cmds = [w.cmds EXCEPT ![name] = cmd]])

\* ---------------------------------------------------------- task manager
HasRow(w, n) == \E r \in w.rows : r.name = n

get_by_name(w, n) == CHOOSE r \in w.rows : r.name = n

HasId(w, id) == \E r \in w.rows : r.id = id

get(w, id) == CHOOSE r \in w.rows : r.id = id

\* A task::create that inserts the row without adding the worktree.
task_create_without_worktree(w, name, wtOk, dbOk) ==
  LET br == <<"pit/">> \o name IN
  IF name = EmptyName THEN Result(FALSE, 0, w)
  ELSE IF w.branch[br] # NoRef \/ ~dbOk \/ HasRow(w, name) THEN Result(FALSE, 0, w)
  ELSE Result(TRUE, w.nextId,
         [w EXCEPT !.branch = [w.branch EXCEPT ![br] = w.mainHead],
                   !.rows = w.rows \cup
                     {[id |-> w.nextId, name |-> name, branch |-> br,
                       worktree |-> <<".pit/worktrees/">> \o name,
                       status |-> "idle", tmux_session |-> NoSession,
                       session_id |-> NoSessionId, agent |-> "claude",
                       prompt |-> NoPrompt]},
                   !.nextId = w.nextId + 1])

\* A task::create that does not stop when `git branch` reports that the
\* branch already exists.
task_create_over_branch(w, name, wtOk, dbOk) ==
  LET br == <<"pit/">> \o name
      worktree_path == <<".pit/worktrees/">> \o name
      w1 == [w EXCEPT !.branch = [w.branch EXCEPT ![br] = w.mainHead]]
      w2 == [w1 EXCEPT !.worktree = [w1.worktree EXCEPT ![worktree_path] = "clean"]]
  IN
  IF name = EmptyName THEN Result(FALSE, 0, w)
  ELSE IF ~wtOk \/ w.worktree[worktree_path] # "absent"
  THEN Result(FALSE, 0, [w1 EXCEPT !.branch = [w1.branch EXCEPT ![br] = NoRef]])
  ELSE IF ~dbOk \/ HasRow(w2, name) THEN Result(FALSE, 0, w2)
  ELSE Result(TRUE, w2.nextId,
         [w2 EXCEPT !.rows = w2.rows \cup
                      {[id |-> w2.nextId, name |-> name, branch |-> br,
                        worktree |-> worktree_path, status |-> "idle",
                        tmux_session |-> NoSession,
                        session_id |-> NoSessionId, agent |-> "claude",
                        prompt |-> NoPrompt]},
                    !.nextId = w2.nextId + 1])

\* A task::create that leaves its branch behind when `git worktree add` fails.
task_create_keeps_branch(w, name, wtOk, dbOk) ==
  LET br == <<"pit/">> \o name
      worktree_path == <<".pit/worktrees/">> \o name
      w1 == [w EXCEPT !.branch = [w.branch EXCEPT ![br] = w.mainHead]]
      w2 == [w1 EXCEPT !.worktree = [w1.worktree EXCEPT ![worktree_path] = "clean"]]
  IN
  IF name = EmptyName \/ w.branch[br] # NoRef THEN Result(FALSE, 0, w)
  ELSE IF ~wtOk \/ w.worktree[worktree_path] # "absent" THEN Result(FALSE, 0, w1)
  ELSE IF ~dbOk \/ HasRow(w2, name) THEN Result(FALSE, 0, w2)
  ELSE Result(TRUE, w2.nextId,
         [w2 EXCEPT !.rows = w2.rows \cup
                      {[id |-> w2.nextId, name |-> name, branch |-> br,
                        worktree |-> worktree_path, status |-> "idle",
                        tmux_session |-> NoSession,
                        session_id |-> NoSessionId, agent |-> "claude",
                        prompt |-> NoPrompt]},
                    !.nextId = w2.nextId + 1])

\* task::create; wtOk and dbOk are the outcomes of `git worktree add` and of
\* the INSERT when nothing in the modelled state decides them.
task_create(w, name, wtOk, dbOk) ==
  IF name = EmptyName THEN Result(FALSE, 0, w)
  ELSE
    LET br == <<"pit/">> \o name
        worktree_path == <<".pit/worktrees/">> \o name
    IN
    IF w.branch[br] # NoRef THEN Result(FALSE, 0, w)
    ELSE
      LET w1 == [w EXCEPT !.branch = [w.branch EXCEPT ![br] = w.mainHead]] IN
      IF ~wtOk \/ w.worktree[worktree_path] # "absent"
      THEN Result(FALSE, 0, [w1 EXCEPT !.branch = [w1.branch EXCEPT ![br] = NoRef]])
      ELSE
        LET w2 == [w1 EXCEPT !.worktree =
                               [w1.worktree EXCEPT ![worktree_path] = "clean"]] IN
        IF ~dbOk \/ HasRow(w2, name)
        THEN Result(FALSE, 0, w2)
        ELSE Result(TRUE, w2.nextId,
               [w2 EXCEPT !.rows = w2.rows \cup
                            {[id |-> w2.nextId, name |-> name, branch |-> br,
                              worktree |-> worktree_path, status |-> "idle",
                              tmux_session |-> NoSession,
                              session_id |-> NoSessionId, agent |-> "claude",
                              prompt |-> NoPrompt]},
                          !.nextId = w2.nextId + 1])

\* A task::delete that leaves the branch behind.
task_delete_keeps_branch(w, id) ==
  IF ~HasId(w, id) THEN Result(FALSE, 0, w)
  ELSE
    LET task == get(w, id) IN
    IF task.status = "running" THEN Result(FALSE, 0, w)
    ELSE Result(TRUE, 0,
           [w EXCEPT !.worktree = [w.worktree EXCEPT ![task.worktree] = "absent"],
                     !.rows = w.rows \ {task}])

\* A task::delete that does not look at the status.
task_delete_unguarded(w, id) ==
  IF ~HasId(w, id) THEN Result(FALSE, 0, w)
  ELSE
    LET task == get(w, id) IN
    Result(TRUE, 0,
      [w EXCEPT !.worktree = [w.worktree EXCEPT ![task.worktree] = "absent"],
                !.branch = [w.branch EXCEPT ![task.branch] = NoRef],
                !.rows = w.rows \ {task}])

\* task::delete
task_delete(w, id) ==
  IF ~HasId(w, id) THEN Result(FALSE, 0, w)
  ELSE
    LET task == get(w, id) IN
    IF task.status = "running" THEN Result(FALSE, 0, w)
    ELSE Result(TRUE, 0,
           [w EXCEPT !.worktree = [w.worktree EXCEPT ![task.worktree] = "absent"],
                     !.branch = [w.branch EXCEPT ![task.branch] = NoRef],
                     !.rows = w.rows \ {task}])

\* task::set_status
set_status(w, id, status) ==
  IF ~HasId(w, id) THEN Result(FALSE, 0, w)
  ELSE Result(TRUE, 0,
         [w EXCEPT !.rows = {IF r.id = id THEN [r EXCEPT !.status = status] ELSE r
                              : r \in w.rows}])

\* task::set_running
set_running(w, id, tmux_session, session_id) ==
  Result(TRUE, 0,
    [w EXCEPT !.rows = {IF r.id = id
                        THEN [r EXCEPT !.status = "running",
                                       !.tmux_session = tmux_session,
                                       !.session_id = session_id]
                        ELSE r : r \in w.rows}])

\* task::list: rows ordered by created_at (insertion order)
RECURSIVE SortById(_)
SortById(S) ==
  IF S = {} THEN << >>
  ELSE LET m == CHOOSE r \in S : \A u \in S : r.id <= u.id
       IN << m >> \o SortById(S \ {m})

task_list(w) == SortById(w.rows)

\* ------------------------------------------------------ checkpoint engine
\* format!("{}", next_idx): the decimal digits of an index, as the last part
\* of the tag name pit/checkpoint/<task>/<index>
RECURSIVE Digits(_)
Digits(n) ==
  IF n < 10 THEN << n >> ELSE Append(Digits(n \div 10), n % 10)

\* idx_str.parse::<usize>(): the number a string of decimal digits denotes
RECURSIVE ParseIndex(_)
ParseIndex(ds) ==
  IF ds = << >> THEN 0
  ELSE 10 * ParseIndex(SubSeq(ds, 1, Len(ds) - 1)) + ds[Len(ds)]

\* The order of tag names in the output of git tag --list: by character.
RECURSIVE LexLess(_, _)
LexLess(a, b) ==
  IF a = << >> THEN b # << >>
  ELSE IF b = << >> THEN FALSE
  ELSE IF a[1] # b[1] THEN a[1] < b[1]
  ELSE LexLess(Tail(a), Tail(b))

\* The line of git tag --list for a tag, with the commit git log finds.
TagLine(t) == [task |-> t.task, name |-> Digits(t.index), commit |-> t.commit]

\* The lines L in the order of their tag names.
RECURSIVE InNameOrder(_)
InNameOrder(L) ==
  IF L = {} THEN << >>
  ELSE LET m == CHOOSE l \in L : \A u \in L : u = l \/ LexLess(l.name, u.name)
       IN << m >> \o InNameOrder(L \ {m})

\* git tag --list "pit/checkpoint/<task>/*" over the tags S
GitTagList(S) == InNameOrder({TagLine(t) : t \in S})

\* The Checkpoint that list's loop pushes for a line.
ParseLine(l) ==
  [task |-> l.task, index |-> ParseIndex(l.name), commit |-> l.commit]

\* A sort that leaves the checkpoints in the order of the lines.
unsorted(checkpoints) == checkpoints

\* The sorted checkpoints s with c added behind those of an index up to c's.
InsertByKey(s, c) ==
  LET k == Cardinality({i \in 1..Len(s) : s[i].index <= c.index})
  IN SubSeq(s, 1, k) \o << c >> \o SubSeq(s, k + 1, Len(s))

\* checkpoints.sort_by_key(|c| c.index): a stable sort by index
RECURSIVE sort_by_key(_)
sort_by_key(checkpoints) ==
  IF checkpoints = << >> THEN << >>
  ELSE InsertByKey(sort_by_key(SubSeq(checkpoints, 1, Len(checkpoints) - 1)),
                   checkpoints[Len(checkpoints)])

\* checkpoint::list, from the lines of git tag --list on
ListLines(lines) ==
  sort_by_key([i \in 1..Len(lines) |-> ParseLine(lines[i])])

\* checkpoint::list
checkpoint_list(w, task_name) ==
  ListLines(GitTagList(TagsOf(w.cpTags, task_name)))

Last(seq) == seq[Len(seq)]

\* An auto_commit_if_dirty that reports a commit and makes none.
auto_commit_if_dirty_skips(w, wt) ==
  IF w.worktree[wt] = "absent" THEN Result(FALSE, 0, w)
  ELSE IF w.worktree[wt] = "clean" THEN Result(TRUE, 0, w)
  ELSE Result(TRUE, 1, w)

\* checkpoint::auto_commit_if_dirty: git add -A, git diff --cached --quiet,
\* git commit
auto_commit_if_dirty(w, wt) ==
  IF w.worktree[wt] = "absent" THEN Result(FALSE, 0, w)
  ELSE IF w.worktree[wt] = "clean" THEN Result(TRUE, 0, w)
  ELSE Result(TRUE, 1, GitCommit(w, wt))

\* A checkpoint::create that numbers from the count of tags, skipping one.
checkpoint_create_skips_index(w, task_name, br, wt) ==
  LET a == auto_commit_if_dirty(w, wt) IN
  IF ~a.ok \/ a.w.branch[br] = NoRef THEN Result(FALSE, 0, a.w)
  ELSE
    LET next_idx == Len(checkpoint_list(a.w, task_name)) + 2 IN
    Result(TRUE, next_idx,
      [a.w EXCEPT !.cpTags = a.w.cpTags \cup
         {[task |-> task_name, index |-> next_idx, commit |-> a.w.branch[br]]}])

\* A checkpoint::create that tags the head it found before the auto-save.
checkpoint_create_tags_parent(w, task_name, br, wt) ==
  LET a == auto_commit_if_dirty(w, wt) IN
  IF ~a.ok \/ w.branch[br] = NoRef THEN Result(FALSE, 0, a.w)
  ELSE
    LET existing == checkpoint_list(a.w, task_name)
        next_idx == IF existing = << >> THEN 1 ELSE Last(existing).index + 1
    IN
    Result(TRUE, next_idx,
      [a.w EXCEPT !.cpTags = a.w.cpTags \cup
         {[task |-> task_name, index |-> next_idx, commit |-> w.branch[br]]}])

\* checkpoint::create
checkpoint_create(w, task_name, br, wt) ==
  LET a == auto_commit_if_dirty(w, wt) IN
  IF ~a.ok THEN Result(FALSE, 0, a.w)
  ELSE
    LET existing == checkpoint_list(a.w, task_name)
        next_idx == IF existing = << >> THEN 1 ELSE Last(existing).index + 1
        commit == a.w.branch[br]
    IN
    IF commit = NoRef THEN Result(FALSE, 0, a.w)
    ELSE IF \E t \in a.w.cpTags : t.task = task_name /\ t.index = next_idx
    THEN Result(FALSE, 0, a.w)
    ELSE Result(TRUE, next_idx,
           [a.w EXCEPT !.cpTags = a.w.cpTags \cup
              {[task |-> task_name, index |-> next_idx, commit |-> commit]}])

\* A save_pre_rollback_tag that keeps a safety tag that already exists.
save_pre_rollback_tag_once(w, task_name, wt) ==
  IF w.preRollback[task_name] # NoRef THEN w
  ELSE [w EXCEPT !.preRollback = [w.preRollback EXCEPT ![task_name] =
                                                         w.branch[CheckedOut(wt)]]]

\* checkpoint::save_pre_rollback_tag: git tag -d, then git tag <tag> <HEAD>
save_pre_rollback_tag(w, task_name, wt) ==
  [w EXCEPT !.preRollback = [w.preRollback EXCEPT ![task_name] =
                                                    w.branch[CheckedOut(wt)]]]

\* A reset that cleans the worktree but leaves the branch where it is.
GitResetKeepsHead(w, wt, commit) ==
  [w EXCEPT !.worktree = [w.worktree EXCEPT ![wt] = "clean"]]

\* git reset --hard <commit> in the worktree at wt
GitResetHard(w, wt, commit) ==
  [w EXCEPT !.branch = [w.branch EXCEPT ![CheckedOut(wt)] = commit],
            !.worktree = [w.worktree EXCEPT ![wt] = "clean"]]

\* checkpoint::rollback; the target NoTarget stands for None
NoTarget == 0

\* A checkpoint::rollback that resets to the first checkpoint when no index
\* is given, and reports the last.
rollback_to_first(w, task_name, wt, target) ==
  LET checkpoints == checkpoint_list(w, task_name) IN
  IF checkpoints = << >> THEN Result(FALSE, 0, w)
  ELSE IF target # NoTarget /\ ~\E i \in 1..Len(checkpoints) : checkpoints[i].index = target
  THEN Result(FALSE, 0, w)
  ELSE
    LET checkpoint ==
          IF target # NoTarget
          THEN checkpoints[CHOOSE i \in 1..Len(checkpoints) : checkpoints[i].index = target]
          ELSE checkpoints[1]
        a == auto_commit_if_dirty(w, wt)
    IN
    IF ~a.ok THEN Result(FALSE, 0, a.w)
    ELSE Result(TRUE, IF target # NoTarget THEN target ELSE Last(checkpoints).index,
           GitResetHard(save_pre_rollback_tag(a.w, task_name, wt), wt,
                        checkpoint.commit))

\* A rollback that makes the auto-save commit before it looks for the
\* checkpoint.
rollback_saves_first(w, task_name, wt, target) ==
  LET a == auto_commit_if_dirty(w, wt)
      checkpoints == checkpoint_list(a.w, task_name)
      found == {i \in 1..Len(checkpoints) : checkpoints[i].index = target}
  IN
  IF ~a.ok \/ checkpoints = << >> \/ (target # NoTarget /\ found = {})
  THEN Result(FALSE, 0, a.w)
  ELSE
    LET checkpoint == IF target # NoTarget
                      THEN checkpoints[CHOOSE i \in found : \A j \in found : i <= j]
                      ELSE Last(checkpoints)
    IN Result(TRUE, checkpoint.index,
         GitResetHard(save_pre_rollback_tag(a.w, task_name, wt), wt,
                      checkpoint.commit))

rollback(w, task_name, wt, target) ==
  LET checkpoints == checkpoint_list(w, task_name) IN
  IF checkpoints = << >> THEN Result(FALSE, 0, w)
  ELSE IF target # NoTarget /\ ~\E i \in 1..Len(checkpoints) : checkpoints[i].index = target
  THEN Result(FALSE, 0, w)
  ELSE
    LET checkpoint ==
          IF target # NoTarget
          THEN checkpoints[CHOOSE i \in 1..Len(checkpoints) :
                             /\ checkpoints[i].index = target
                             /\ \A j \in 1..(i - 1) : checkpoints[j].index # target]
          ELSE Last(checkpoints)
        a == auto_commit_if_dirty(w, wt)
    IN
    IF ~a.ok THEN Result(FALSE, 0, a.w)
    ELSE Result(TRUE, checkpoint.index,
           GitResetHard(save_pre_rollback_tag(a.w, task_name, wt), wt,
                        checkpoint.commit))

\* has_commits_beyond_main: the first of main, master that resolves decides
MainCandidates == << "main", "master" >>

RECURSIVE BeyondFrom(_, _, _)
BeyondFrom(w, br, i) ==
  IF i > Len(MainCandidates) THEN FALSE
  ELSE IF MainCandidates[i] = w.defaultName /\ w.branch[br] # NoRef
  THEN RevListCount(w.parent, w.mainHead, w.branch[br]) > 0
  ELSE BeyondFrom(w, br, i + 1)

has_commits_beyond_main(w, br) == BeyondFrom(w, br, 1)

\* checkpoint::has_new_commits
has_new_commits(w, task_name, br) ==
  LET checkpoints == checkpoint_list(w, task_name) IN
  IF checkpoints = << >> THEN has_commits_beyond_main(w, br)
  ELSE IF w.branch[br] = NoRef THEN FALSE
  ELSE RevListCount(w.parent, Last(checkpoints).commit, w.branch[br]) > 0

\* ---------------------------------------------------------------- reaper
\* The liveness test of reap_dead for the row t that task::list returned.
is_alive(w, t) ==
  t.tmux_session # NoSession /\ session_exists(w, t.tmux_session)

\* The auto-checkpoint of reap_dead; a failure of the checkpoint is dropped.
reap_checkpoint(w, t) ==
  IF has_new_commits(w, t.name, t.branch)
  THEN checkpoint_create(w, t.name, t.branch, t.worktree).w
  ELSE w

\* An iteration that looks at the session only, whatever the status.
reap_one_any_status(w, t) ==
  IF is_alive(w, t) THEN Result(TRUE, 0, w)
  ELSE LET s == set_status(reap_checkpoint(w, t), t.id, "idle")
       IN Result(s.ok, 1, s.w)

\* An iteration that checkpoints and counts the task but leaves it running.
reap_one_keeps_running(w, t) ==
  IF t.status # "running" \/ is_alive(w, t) THEN Result(TRUE, 0, w)
  ELSE Result(TRUE, 1, reap_checkpoint(w, t))

\* One iteration of reap_dead's loop for the row t that task::list returned.
reap_one(w, t) ==
  IF t.status # "running" \/ is_alive(w, t) THEN Result(TRUE, 0, w)
  ELSE LET s == set_status(reap_checkpoint(w, t), t.id, "idle")
       IN Result(s.ok, 1, s.w)

RECURSIVE ReapFrom(_, _, _, _)
ReapFrom(w, tasks, i, reaped) ==
  IF i > Len(tasks) THEN Result(TRUE, reaped, w)
  ELSE LET r == reap_one(w, tasks[i]) IN
       IF ~r.ok THEN Result(FALSE, reaped, r.w)
       ELSE ReapFrom(r.w, tasks, i + 1, reaped + r.val)

\* reap::reap_dead
reap_dead(w) == ReapFrom(w, task_list(w), 1, 0)

\* ------------------------------------------------------ agent command
\* The k-th identifier of Uuid::new_v4, as text.
Uuid(k) == <<"uuid-", ToString(k)>>

\* "$(cat '<path>')": the shell reads the prompt from the file at run time.
CatPrompt(path) == <<"\"$(cat '">> \o path \o <<"')\"">>

\* A build_agent_cmd that never resumes: the forms of a task without a
\* recorded session_id, with the identifier the task has.
build_agent_cmd_no_resume(task, uuid) ==
  LET session_id == IF task.session_id # NoSessionId THEN task.session_id
                    ELSE uuid
      prompt_arg == CatPrompt(task.worktree \o <<"/.pit-prompt">>)
      name == IF task.agent \in {"pi", "codex", "aider", "amp", "goose"}
              THEN task.agent ELSE "claude"
  IN [cmd |-> IF task.agent = "custom" THEN task.prompt
              ELSE IF task.prompt # NoPrompt
              THEN << name, " " >> \o prompt_arg
              ELSE << name >>,
      session_id |-> session_id, written |-> task.prompt]

\* A build_agent_cmd that passes the prompt text on the command line.
build_agent_cmd_inline_prompt(task, uuid) ==
  [cmd |-> << task.agent, " " >> \o task.prompt,
   session_id |-> IF task.session_id # NoSessionId THEN task.session_id
                  ELSE uuid,
   written |-> task.prompt]

\* tui::build_agent_cmd; uuid is what Uuid::new_v4 returns if it is called,
\* and `written` is what the call writes to <worktree>/.pit-prompt.
build_agent_cmd(task, uuid) ==
  LET session_id == IF task.session_id # NoSessionId THEN task.session_id
                    ELSE uuid
      is_resume == task.session_id # NoSessionId
      prompt_arg == CatPrompt(task.worktree \o <<"/.pit-prompt">>)
      cmd ==
        CASE task.agent = "pi" ->
               IF is_resume THEN <<"pi --continue">>
               ELSE IF task.prompt # NoPrompt THEN <<"pi ">> \o prompt_arg
               ELSE <<"pi">>
          [] task.agent = "codex" ->
               IF task.prompt # NoPrompt THEN <<"codex ">> \o prompt_arg
               ELSE <<"codex">>
          [] task.agent = "aider" ->
               IF task.prompt # NoPrompt
               THEN <<"aider --message ">> \o prompt_arg
               ELSE <<"aider">>
          [] task.agent = "amp" ->
               IF task.prompt # NoPrompt THEN <<"amp --prompt ">> \o prompt_arg
               ELSE <<"amp">>
          [] task.agent = "goose" ->
               IF task.prompt # NoPrompt THEN <<"goose ">> \o prompt_arg
               ELSE <<"goose">>
          [] task.agent = "custom" ->
               IF task.prompt # NoPrompt THEN task.prompt
               ELSE <<"echo 'No agent configured. Type your command.'">>
          [] OTHER ->
               IF is_resume THEN <<"claude -r ">> \o session_id
               ELSE IF task.prompt # NoPrompt
               THEN <<"claude --session-id ">> \o session_id \o <<" ">>
                      \o prompt_arg
               ELSE <<"claude --session-id ">> \o session_id
  IN [cmd |-> cmd, session_id |-> session_id, written |-> task.prompt]

\* The store after build_agent_cmd(task): an identifier is used up when the
\* task had none.
AfterBuild(w, task) ==
  IF task.session_id = NoSessionId
  THEN [w EXCEPT !.nextUuid = w.nextUuid + 1]
  ELSE w

\* ------------------------------------------------------ command handlers
\* A cmd_run that does not ask whether the session exists.
cmd_run_unchecked(w, n) ==
  IF ~HasRow(w, n) THEN Result(FALSE, 0, w)
  ELSE
    LET t == get_by_name(w, n)
        tmux_name == session_name(t.name)
        b == build_agent_cmd(t, Uuid(w.nextUuid))
        c == create_session_with_cmd(AfterBuild(w, t), tmux_name, t.worktree, b.cmd)
    IN
    IF ~c.ok THEN Result(FALSE, 0, c.w)
    ELSE Result(TRUE, 1, set_running(c.w, t.id, tmux_name, b.session_id).w)

cmd_run(w, n) ==
  IF ~HasRow(w, n) THEN Result(FALSE, 0, w)
  ELSE
    LET t == get_by_name(w, n)
        tmux_name == session_name(t.name)
    IN
    IF session_exists(w, tmux_name) THEN Result(TRUE, 0, w)
    ELSE LET b == build_agent_cmd(t, Uuid(w.nextUuid))
             c == create_session_with_cmd(AfterBuild(w, t), tmux_name,
                                          t.worktree, b.cmd)
         IN
         IF ~c.ok THEN Result(FALSE, 0, c.w)
         ELSE Result(TRUE, 1,
                     set_running(c.w, t.id, tmux_name, b.session_id).w)

\* tui::launch_task
launch_task(w, task) ==
  LET tmux_name == session_name(task.name) IN
  IF session_exists(w, tmux_name) THEN Result(TRUE, 0, w)
  ELSE LET b == build_agent_cmd(task, Uuid(w.nextUuid))
           c == create_session_with_cmd(AfterBuild(w, task), tmux_name,
                                        task.worktree, b.cmd)
       IN
       IF ~c.ok THEN Result(FALSE, 0, c.w)
       ELSE Result(TRUE, 1,
                   set_running(c.w, task.id, tmux_name, b.session_id).w)

cmd_shell(w, n) ==
  IF ~HasRow(w, n) THEN Result(FALSE, 0, w)
  ELSE
    LET t == get_by_name(w, n)
        tmux_name == shell_session_name(t.name)
    IN
    IF session_exists(w, tmux_name) THEN Result(TRUE, 0, w)
    ELSE LET c == create_session_with_cmd(w, tmux_name, t.worktree,
                                          <<"$SHELL">>) IN
         Result(c.ok, 1, c.w)

\* A cmd_stop that marks the task idle and leaves its session alive.
cmd_stop_keeps_session(w, n) ==
  IF ~HasRow(w, n) THEN Result(FALSE, 0, w)
  ELSE
    LET t == get_by_name(w, n) IN
    IF t.status # "running" THEN Result(TRUE, 0, w)
    ELSE LET s == set_status(w, t.id, "idle") IN Result(s.ok, 1, s.w)

cmd_stop(w, n) ==
  IF ~HasRow(w, n) THEN Result(FALSE, 0, w)
  ELSE
    LET t == get_by_name(w, n) IN
    IF t.status # "running" THEN Result(TRUE, 0, w)
    ELSE
      LET w1 == IF t.tmux_session # NoSession THEN kill_session(w, t.tmux_session) ELSE w
          s == set_status(w1, t.id, "idle")
      IN Result(s.ok, 1, s.w)

cmd_delete(w, n) ==
  IF ~HasRow(w, n) THEN Result(FALSE, 0, w)
  ELSE
    LET t == get_by_name(w, n)
        w1 == IF t.tmux_session # NoSession THEN kill_session(w, t.tmux_session) ELSE w
        w2 == IF t.status = "running" THEN set_status(w1, t.id, "idle").w ELSE w1
    IN task_delete(w2, t.id)

cmd_checkpoint(w, n) ==
  IF ~HasRow(w, n) THEN Result(FALSE, 0, w)
  ELSE LET t == get_by_name(w, n)
       IN checkpoint_create(w, t.name, t.branch, t.worktree)

\* A cmd_rollback without the test of the status.
cmd_rollback_unguarded(w, n, target) ==
  IF ~HasRow(w, n) THEN Result(FALSE, 0, w)
  ELSE LET t == get_by_name(w, n) IN rollback(w, t.name, t.worktree, target)

cmd_rollback(w, n, target) ==
  IF ~HasRow(w, n) THEN Result(FALSE, 0, w)
  ELSE
    LET t == get_by_name(w, n) IN
    IF t.status = "running" THEN Result(FALSE, 0, w)
    ELSE rollback(w, t.name, t.worktree, target)

\* ---------------------------------------------------------- config store
\* Keys and values of pit config set; a string is the tuple of its characters.
ConfigKeys == { <<"k">>, <<"s", ".", "j">>, <<"s", ".", "k">> }

ConfigValues ==
  { <<"x">>, <<"x", "x">>, <<"\"", "x", "\"">>, <<"x", " ">> }

\* The characters' code points, for the order of sort and sort_by.
CodePoint ==
  [c \in {" ", "\"", "#", ".", "=", "[", "]", "j", "k", "s", "x"} |->
     CASE c = " " -> 32 [] c = "\"" -> 34 [] c = "#" -> 35 [] c = "." -> 46
       [] c = "=" -> 61 [] c = "[" -> 91 [] c = "]" -> 93 [] c = "j" -> 106
       [] c = "k" -> 107 [] c = "s" -> 115 [] c = "x" -> 120]

StrLess(a, b) ==
  LexLess([i \in 1..Len(a) |-> CodePoint[a[i]]], [i \in 1..Len(b) |-> CodePoint[b[i]]])

\* str::trim_matches(c): s without its leading and trailing c's
RECURSIVE TrimMatches(_, _)
TrimMatches(str, c) ==
  IF str = << >> THEN << >>
  ELSE IF str[1] = c THEN TrimMatches(Tail(str), c)
  ELSE IF str[Len(str)] = c THEN TrimMatches(SubSeq(str, 1, Len(str) - 1), c)
  ELSE str

\* str::trim, over the one white-space character of the model
Trim(str) == TrimMatches(str, " ")

\* str::find(c): the index of the first c in s, 0 when there is none
Find(str, c) ==
  IF \E i \in 1..Len(str) : str[i] = c
  THEN CHOOSE i \in 1..Len(str) : str[i] = c /\ \A j \in 1..(i - 1) : str[j] # c
  ELSE 0

\* key.splitn(2, '.'): << section, field >>, or << key >> without a dot
SplitKey(key) ==
  LET d == Find(key, ".") IN
  IF d = 0 THEN << key >>
  ELSE << SubSeq(key, 1, d - 1), SubSeq(key, d + 1, Len(key)) >>

\* HashMap::insert, HashMap::remove and HashMap::get; a map is the set of
\* its << key, value >> entries and an Option the set of at most one value.
MapInsert(map, key, value) == {e \in map : e[1] # key} \cup {<< key, value >>}

MapRemove(map, key) == {e \in map : e[1] # key}

MapGet(map, key) == {e[2] : e \in {e \in map : e[1] = key}}

\* The entries E as a sequence in the order of their keys.
RECURSIVE SortedByKey(_)
SortedByKey(E) ==
  IF E = {} THEN << >>
  ELSE LET m == CHOOSE e \in E : \A u \in E : u = e \/ StrLess(e[1], u[1])
       IN << m >> \o SortedByKey(E \ {m})

\* format!("{} = \"{}\"\n", k, v), for each of the fields in turn
FieldLines(fields) ==
  [i \in 1..Len(fields) |->
     fields[i][1] \o <<" ", "=", " ", "\"">> \o fields[i][2] \o <<"\"">>]

\* save_config's lines for the sections named in S, in the order of their
\* names: the header, the fields and an empty line
RECURSIVE SectionLines(_, _)
SectionLines(S, map) ==
  IF S = {} THEN << >>
  ELSE
    LET name == CHOOSE n \in S : \A u \in S : u = n \/ StrLess(n, u)
        fields == {<< SplitKey(e[1])[2], e[2] >> :
                     e \in {e \in map : Len(SplitKey(e[1])) = 2
                                        /\ SplitKey(e[1])[1] = name}}
    IN << <<"[">> \o name \o <<"]">> >> \o FieldLines(SortedByKey(fields))
         \o << << >> >> \o SectionLines(S \ {name}, map)

\* save_config: the file it writes for the map.  Top-level keys come first
\* (the map's iteration order is unspecified; keys are distinct, and the
\* order of their keys is taken), then the sections.
save_config(map) ==
  LET top == {e \in map : Len(SplitKey(e[1])) = 1 \/ SplitKey(e[1])[1] = << >>}
      topFields == {<< IF Len(SplitKey(e[1])) = 1 THEN e[1] ELSE SplitKey(e[1])[2],
                       e[2] >> : e \in top}
      names == {SplitKey(e[1])[1] : e \in map \ top}
  IN FieldLines(SortedByKey(topFields))
       \o (IF top = {} THEN << >> ELSE << << >> >>)
       \o SectionLines(names, map)

\* load_config's loop over the lines from the i-th on, with the section and
\* the map it has so far
RECURSIVE LoadFrom(_, _, _, _)
LoadFrom(lines, i, section, map) ==
  IF i > Len(lines) THEN map
  ELSE
    LET line == Trim(lines[i])
        eq_pos == Find(line, "=")
    IN
    IF line = << >> \/ line[1] = "#" THEN LoadFrom(lines, i + 1, section, map)
    ELSE IF line[1] = "[" /\ line[Len(line)] = "]"
    THEN LoadFrom(lines, i + 1, Trim(SubSeq(line, 2, Len(line) - 1)), map)
    ELSE IF eq_pos = 0 THEN LoadFrom(lines, i + 1, section, map)
    ELSE
      LET key == Trim(SubSeq(line, 1, eq_pos - 1))
          value == TrimMatches(Trim(SubSeq(line, eq_pos + 1, Len(line))), "\"")
          full_key == IF section = << >> THEN key ELSE section \o <<".">> \o key
      IN LoadFrom(lines, i + 1, section, MapInsert(map, full_key, value))

\* load_config: a file that cannot be read gives the empty map
load_config(file) == LoadFrom(file, 1, << >>, {})

\* config::get, with no environment variable set for the key
config_get(file, key) ==
  LET parts == SplitKey(key) IN
  MapGet(load_config(file),
         IF Len(parts) = 2 THEN parts[1] \o <<".">> \o parts[2] ELSE parts[1])

\* config::set: the file it leaves
config_set(file, key, value) == save_config(MapInsert(load_config(file), key, value))

\* config::unset: the file it leaves
config_unset(file, key) == save_config(MapRemove(load_config(file), key))

\* ------------------------------------------------------ schema migrations
\* MIGRATIONS: the versions of the (version, description, sql) tuples
MIGRATIONS == << 1, 2, 3 >>

Versions == { MIGRATIONS[i] : i \in 1..Len(MIGRATIONS) }

\* What can be made to fail in one run: nothing (0), the transaction of the
\* migration of version k (k), or the query of the current version.
NoFault == 0
ReadFault == Len(MIGRATIONS) + 1
OpenFaults == {NoFault, ReadFault} \cup Versions

Db == [schema_version |-> schema_version, applied |-> applied]

\* SELECT COALESCE(MAX(version), 0) FROM schema_version
MaxVersion(S) == IF S = {} THEN 0 ELSE CHOOSE v \in S : \A u \in S : u <= v

\* A loop of run that records the version of a migration whose transaction
\* failed.
RECURSIVE run_loop_records_failed(_, _, _, _, _)
run_loop_records_failed(db, i, current_version, fault, count) ==
  IF i > Len(MIGRATIONS) THEN [ok |-> TRUE, val |-> count, db |-> db]
  ELSE
    LET version == MIGRATIONS[i] IN
    IF version <= current_version
    THEN run_loop_records_failed(db, i + 1, current_version, fault, count)
    ELSE IF fault = version \/ db.applied[version] > 0
    THEN [ok |-> FALSE, val |-> count,
          db |-> [db EXCEPT !.schema_version = @ \cup {version}]]
    ELSE run_loop_records_failed(
           [schema_version |-> db.schema_version \cup {version},
            applied |-> [db.applied EXCEPT ![version] = @ + 1]],
           i + 1, current_version, fault, count + 1)

\* The loop of run over MIGRATIONS from the i-th tuple on.  A transaction
\* fails when it is made to, when the migration's SQL has taken effect
\* before (the table or the column exists) or when the version row exists
\* (PRIMARY KEY); a failed transaction is rolled back when it is dropped and
\* `?` returns the error.  val counts the migrations the run applied.
RECURSIVE run_loop(_, _, _, _, _)
run_loop(db, i, current_version, fault, count) ==
  IF i > Len(MIGRATIONS) THEN [ok |-> TRUE, val |-> count, db |-> db]
  ELSE
    LET version == MIGRATIONS[i] IN
    IF version <= current_version
    THEN run_loop(db, i + 1, current_version, fault, count)
    ELSE IF \/ fault = version
            \/ db.applied[version] > 0
            \/ version \in db.schema_version
    THEN [ok |-> FALSE, val |-> count, db |-> db]
    ELSE run_loop(
           [schema_version |-> db.schema_version \cup {version},
            applied |-> [db.applied EXCEPT ![version] = @ + 1]],
           i + 1, current_version, fault, count + 1)

\* A run that applies every migration whatever the recorded version is.
run_ignores_version(db, fault) == run_loop(db, 1, 0, fault, 0)

\* migrations::run; the query of the current version yields 0 when it fails
\* (unwrap_or(0))
run(db, fault) ==
  LET current_version == IF fault = ReadFault THEN 0
                         ELSE MaxVersion(db.schema_version)
  IN run_loop(db, 1, current_version, fault, 0)

\* ------------------------------------------------------------------ init
Procs == {1, 2}

NoLoc == << >>

NoRet == [op |-> "none", name |-> EmptyName, arg |-> 0, ok |-> TRUE, val |-> 0]

Ret(op, name, arg, r) ==
  [op |-> op, name |-> name, arg |-> arg, ok |-> r.ok, val |-> r.val]

FreshProject ==
  /\ rows = {}
  /\ nextId = 1
  /\ branch = [b \in BranchNames |-> NoRef]
  /\ worktree = [p \in WorktreePaths |-> "absent"]
  /\ parent = << NoRef >>
  /\ mainHead = RootCommit
  /\ cpTags = {}
  /\ preRollback = [n \in Names |-> NoRef]
  /\ sessions = {}
  /\ cmds = [s \in SessionNames |-> NoCmd]
  /\ nextUuid = 1
  /\ ret = NoRet
  /\ moved = [n \in Names |-> FALSE]
  /\ fwd = {}
  /\ cpHead = [n \in Names |-> NoRef]
  /\ pc = [p \in Procs |-> "idle"]
  /\ loc = [p \in Procs |-> NoLoc]
  /\ config_toml = << >>

\* The project after `pit init`: db::open has run every migration.
FreshStore ==
  /\ FreshProject
  /\ schema_version = Versions
  /\ applied = [v \in Versions |-> 1]

NoInput == << >>

NoOutput == << >>

Fresh == FreshStore /\ inp = NoInput /\ out = NoOutput

\* after `pit init` in a repository whose default branch is main
Init == Fresh /\ defaultName = "main"

\* after `pit init` in a repository with any default branch
InitAnyDefault == Fresh /\ defaultName \in DefaultBranchNames

\* ------------------------------------------------------- history variables
\* n's branch was deleted, or reset to a checkpoint below n's last one.
MovedBy(op, n, r, target) ==
  \/ op \in {"delete", "cmd_delete"} /\ r.ok
  \/ /\ op = "rollback" /\ r.ok
     /\ \E t \in TagsOf(cpTags, n) : t.index > r.val

\* The history after an operation op on the name n that led to the world r.w.
Hist(op, n, r, target) ==
  LET created == {<<t.task, t.index>> : t \in r.w.cpTags \ cpTags} IN
  /\ fwd' = fwd \cup {c \in created : ~moved[c[1]]}
  /\ moved' = [m \in Names |->
                 IF \E c \in created : c[1] = m THEN FALSE
                 ELSE moved[m] \/ (m = n /\ MovedBy(op, n, r, target))]
  /\ cpHead' = [m \in Names |->
                  IF \E c \in created : c[1] = m
                  THEN r.w.branch[<<"pit/">> \o m]
                  ELSE cpHead[m]]

\* A command run from start to end by one pit process, the others idle.
Command(op, n, arg, r) ==
  /\ \A p \in Procs : pc[p] = "idle"
  /\ WithinBounds(r.w)
  /\ SetWorld(r.w)
  /\ ret' = Ret(op, n, arg, r)
  /\ Hist(op, n, r, arg)
  /\ UNCHANGED << procs, pure, schema, config >>

\* A step of the agent or the operator outside pit, to the world w.
Outside(w) ==
  /\ WithinBounds(w)
  /\ SetWorld(w)
  /\ ret' = NoRet
  /\ UNCHANGED << hist, procs, pure, schema, config >>

\* --------------------------------------------------------------- actions
\* pit new <name> (cmd_new, handle_create): task::create
Create(name, wtOk, dbOk) ==
  Command("create", name, 0, task_create(World, name, wtOk, dbOk))

\* The steps of task::create that are made to fail: 1 for `git worktree
\* add`, 2 for the INSERT, 3 for both, 0 for neither.
Faults(wtOk, dbOk) == (IF wtOk THEN 0 ELSE 1) + (IF dbOk THEN 0 ELSE 2)

\* pit new <name>, with the failing steps recorded as the argument
CreateWith(name, wtOk, dbOk) ==
  Command("create", name, Faults(wtOk, dbOk), task_create(World, name, wtOk, dbOk))

\* db::open of the project's store by a pit command: migrations::run
Open(fault) ==
  /\ \A p \in Procs : pc[p] = "idle"
  /\ LET r == run(Db, fault) IN
     /\ schema_version' = r.db.schema_version
     /\ applied' = r.db.applied
     /\ ret' = [op |-> "open", name |-> EmptyName, arg |-> fault,
                ok |-> r.ok, val |-> r.val]
  /\ UNCHANGED << world, hist, procs, pure, config >>

\* db::open returned Ok: every migration is recorded
Opened == MaxVersion(schema_version) = Len(MIGRATIONS)

\* task::delete called on the task named n
Delete(n) ==
  /\ HasRow(World, n)
  /\ Command("delete", n, 0, task_delete(World, get_by_name(World, n).id))

\* task::set_status called on the task named n
SetStatus(n, status) ==
  /\ HasRow(World, n)
  /\ Command("set_status", n, 0, set_status(World, get_by_name(World, n).id, status))

\* pit run <name>
CmdRun(n) == HasRow(World, n) /\ Command("run", n, 0, cmd_run(World, n))

\* pit shell <name>; the session stays when the operator detaches
CmdShell(n) == HasRow(World, n) /\ Command("shell", n, 0, cmd_shell(World, n))

\* pit stop <name>
CmdStop(n) == HasRow(World, n) /\ Command("stop", n, 0, cmd_stop(World, n))

\* pit delete <name>
CmdDelete(n) == HasRow(World, n) /\ Command("cmd_delete", n, 0, cmd_delete(World, n))

\* pit checkpoint <name>
CmdCheckpoint(n) ==
  HasRow(World, n) /\ Command("checkpoint", n, 0, cmd_checkpoint(World, n))

\* pit rollback <name> [--to N]
CmdRollback(n, target) ==
  HasRow(World, n) /\ Command("rollback", n, target, cmd_rollback(World, n, target))

\* the reaper pass of pit list, pit status and the dashboard's refresh
Reap == Command("reap", EmptyName, 0, reap_dead(World))

\* the agent (or the operator) commits in the task's worktree
AgentCommit(wt) ==
  /\ worktree[wt] # "absent"
  /\ Outside([GitCommit(World, wt) EXCEPT !.worktree = worktree])

\* the agent (or the operator) edits files in the task's worktree
Edit(wt) ==
  /\ worktree[wt] = "clean"
  /\ Outside([World EXCEPT !.worktree = [worktree EXCEPT ![wt] = "dirty"]])

\* a session ends: the agent exits or crashes, or the session is killed
SessionEnds(s) ==
  /\ s \in sessions
  /\ Outside(kill_session(World, s))

Targets == 0..(MaxCheckpoints + 1)

\* Task lifecycle: the task manager, the sessions and the reaper.
Next ==
  \/ \E name \in CreateNames, wtOk, dbOk \in BOOLEAN : Create(name, wtOk, dbOk)
  \/ \E n \in Names : Delete(n)
  \/ \E n \in Names, status \in Statuses : SetStatus(n, status)
  \/ \E n \in Names : CmdRun(n)
  \/ \E n \in Names : CmdShell(n)
  \/ \E n \in Names : CmdStop(n)
  \/ \E n \in Names : CmdDelete(n)
  \/ Reap
  \/ \E s \in sessions : SessionEnds(s)

Spec == Init /\ [][Next]_vars

\* Checkpoint engine: one task name, its branch, worktree and tags.
CpNames == { <<"a">> }

CpWorktrees == { <<".pit/worktrees/">> \o n : n \in CpNames }

NextCp ==
  \/ \E name \in CpNames : ~HasRow(World, name) /\ Create(name, TRUE, TRUE)
  \/ \E n \in CpNames : CmdDelete(n)
  \/ \E n \in CpNames : CmdCheckpoint(n)
  \/ \E n \in CpNames, target \in Targets : CmdRollback(n, target)
  \/ \E wt \in CpWorktrees : AgentCommit(wt)
  \/ \E wt \in CpWorktrees : Edit(wt)

SpecCp == Init /\ [][NextCp]_vars

\* Reaper: one task that is run, checkpointed and rolled back and whose
\* session ends behind pit's back, in a repository with any default branch.
NextReap ==
  \/ \E name \in CpNames : ~HasRow(World, name) /\ Create(name, TRUE, TRUE)
  \/ \E n \in CpNames : CmdRun(n)
  \/ \E n \in CpNames : CmdCheckpoint(n)
  \/ \E n \in CpNames, target \in Targets : CmdRollback(n, target)
  \/ Reap
  \/ \E wt \in CpWorktrees : AgentCommit(wt)
  \/ \E wt \in CpWorktrees : Edit(wt)
  \/ \E s \in sessions : SessionEnds(s)

SpecReap == InitAnyDefault /\ [][NextReap]_vars

\* The same commands in a repository whose default branch is main.
SpecAuto == Init /\ [][NextReap]_vars
\* The reaper among several tasks: tasks of both names are created, run and
\* marked by the operator, the agents commit, sessions end, the reaper passes.
NextFrame ==
  \/ \E name \in Names : ~HasRow(World, name) /\ Create(name, TRUE, TRUE)
  \/ \E n \in Names, status \in {"done", "error"} : SetStatus(n, status)
  \/ \E n \in Names : CmdRun(n)
  \/ Reap
  \/ \E wt \in WorktreePaths : AgentCommit(wt)
  \/ \E s \in sessions : SessionEnds(s)

SpecFrame == Init /\ [][NextFrame]_vars

\* ------------------------------------------- commands, one call at a time
\* Two pit processes whose commands interleave at their calls to the store,
\* to tmux and to git. loc[p] holds the rows the command has read: the task
\* t of cmd_run and cmd_stop, the rest of the list of reap_dead's loop.

\* A step of process p from `from` to `to`, leading to the world w.
Step(p, from, w, to, l) ==
  /\ pc[p] = from
  /\ WithinBounds(w)
  /\ SetWorld(w)
  /\ pc' = [pc EXCEPT ![p] = to]
  /\ loc' = [loc EXCEPT ![p] = l]
  /\ Hist("step", EmptyName, Result(TRUE, 0, w), 0)
  /\ UNCHANGED << pure, schema, config >>

\* The step after which p's command returns with the result r.
Return(p, from, op, n, r) ==
  /\ Step(p, from, r.w, "idle", NoLoc)
  /\ ret' = Ret(op, n, 0, r)

\* cmd_run: task::get_by_name
RunGet(p, n) ==
  IF HasRow(World, n)
  THEN Step(p, "idle", World, "run_exists", << get_by_name(World, n) >>)
         /\ UNCHANGED ret
  ELSE Return(p, "idle", "run", n, Result(FALSE, 0, World))

\* cmd_run: tmux::session_exists
RunExists(p) ==
  /\ pc[p] = "run_exists"
  /\ LET t == loc[p][1] IN
     IF session_exists(World, session_name(t.name))
     THEN Return(p, "run_exists", "run", t.name, Result(TRUE, 0, World))
     ELSE Step(p, "run_exists", World, "run_create", loc[p]) /\ UNCHANGED ret

\* cmd_run: tmux::create_session_with_cmd
RunCreate(p) ==
  /\ pc[p] = "run_create"
  /\ LET t == loc[p][1]
         b == build_agent_cmd(t, Uuid(nextUuid))
         c == create_session_with_cmd(AfterBuild(World, t),
                                      session_name(t.name), t.worktree, b.cmd)
     IN IF c.ok
        THEN Step(p, "run_create", c.w, "run_set", << t, b.session_id >>)
               /\ UNCHANGED ret
        ELSE Return(p, "run_create", "run", t.name, c)

\* cmd_run: task::set_running
RunSet(p) ==
  /\ pc[p] = "run_set"
  /\ LET t == loc[p][1] IN
     Return(p, "run_set", "run", t.name,
            Result(TRUE, 1, set_running(World, t.id, session_name(t.name),
                                        loc[p][2]).w))

\* cmd_stop: task::get_by_name and the test of the status it read
StopGet(p, n) ==
  IF ~HasRow(World, n)
  THEN Return(p, "idle", "stop", n, Result(FALSE, 0, World))
  ELSE IF get_by_name(World, n).status # "running"
  THEN Return(p, "idle", "stop", n, Result(TRUE, 0, World))
  ELSE Step(p, "idle", World, "stop_kill", << get_by_name(World, n) >>)
         /\ UNCHANGED ret

\* cmd_stop: tmux::kill_session of the session the row recorded
StopKill(p) ==
  /\ pc[p] = "stop_kill"
  /\ LET t == loc[p][1] IN
     Step(p, "stop_kill",
          IF t.tmux_session # NoSession THEN kill_session(World, t.tmux_session)
          ELSE World,
          "stop_set", loc[p])
  /\ UNCHANGED ret

\* cmd_stop: task::set_status(Idle)
StopSet(p) ==
  /\ pc[p] = "stop_set"
  /\ LET t == loc[p][1]
         s == set_status(World, t.id, "idle")
     IN Return(p, "stop_set", "stop", t.name, Result(s.ok, 1, s.w))

\* The rows reap_dead's loop still has to look at: it skips those it read
\* as not running.
RECURSIVE SkipNotRunning(_)
SkipNotRunning(tasks) ==
  IF tasks = << >> THEN << >>
  ELSE IF Head(tasks).status # "running" THEN SkipNotRunning(Tail(tasks))
  ELSE tasks

\* reap_dead moves on to the rows `tasks`, or returns when none is left.
ReapOn(p, from, w, tasks) ==
  IF SkipNotRunning(tasks) = << >>
  THEN Return(p, from, "reap", EmptyName, Result(TRUE, 0, w))
  ELSE Step(p, from, w, "reap_exists", SkipNotRunning(tasks)) /\ UNCHANGED ret

\* reap_dead: task::list
ReapList(p) == ReapOn(p, "idle", World, task_list(World))

\* reap_dead: tmux::session_exists for the row at hand
ReapExists(p) ==
  /\ pc[p] = "reap_exists"
  /\ IF is_alive(World, Head(loc[p]))
     THEN ReapOn(p, "reap_exists", World, Tail(loc[p]))
     ELSE Step(p, "reap_exists", World, "reap_has_new", loc[p]) /\ UNCHANGED ret

\* reap_dead: checkpoint::has_new_commits for the row at hand
ReapHasNew(p) ==
  /\ pc[p] = "reap_has_new"
  /\ LET t == Head(loc[p]) IN
     Step(p, "reap_has_new", World,
          IF has_new_commits(World, t.name, t.branch) THEN "reap_create"
          ELSE "reap_set",
          loc[p])
  /\ UNCHANGED ret

\* reap_dead: checkpoint::create, whose result is dropped
ReapCreate(p) ==
  /\ pc[p] = "reap_create"
  /\ LET t == Head(loc[p]) IN
     Step(p, "reap_create",
          checkpoint_create(World, t.name, t.branch, t.worktree).w,
          "reap_set", loc[p])
  /\ UNCHANGED ret

\* reap_dead: task::set_status(Idle)
ReapSet(p) ==
  /\ pc[p] = "reap_set"
  /\ LET s == set_status(World, Head(loc[p]).id, "idle") IN
     IF s.ok THEN ReapOn(p, "reap_set", s.w, Tail(loc[p]))
     ELSE Return(p, "reap_set", "reap", EmptyName, Result(FALSE, 0, s.w))

\* pit delete <name> by process p, in one step
DeleteBy(p, n) ==
  /\ HasRow(World, n)
  /\ Return(p, "idle", "cmd_delete", n, cmd_delete(World, n))

\* checkpoint::create by process p for the task named n:
\* auto_commit_if_dirty.  The process keeps the row and the number of
\* commits the call made.
CpAuto(p, n) ==
  /\ HasRow(World, n)
  /\ LET t == get_by_name(World, n)
         a == auto_commit_if_dirty(World, t.worktree)
     IN IF ~a.ok
        THEN Return(p, "idle", "checkpoint", n, Result(FALSE, 0, a.w))
        ELSE Step(p, "idle", a.w, "cp_list", << t, a.val >>) /\ UNCHANGED ret

\* checkpoint::create: list and the computation of next_idx
CpList(p) ==
  /\ pc[p] = "cp_list"
  /\ LET t == loc[p][1]
         existing == checkpoint_list(World, t.name)
         next_idx == IF existing = << >> THEN 1 ELSE Last(existing).index + 1
     IN Step(p, "cp_list", World, "cp_tag", << t, loc[p][2], next_idx >>)
  /\ UNCHANGED ret

\* checkpoint::create: git rev-parse <branch> and git tag -a <tag> <commit>
CpTag(p) ==
  /\ pc[p] = "cp_tag"
  /\ LET t == loc[p][1]
         next_idx == loc[p][3]
         commit == branch[t.branch]
     IN IF commit = NoRef \/ \E c \in cpTags : c.task = t.name /\ c.index = next_idx
        THEN Return(p, "cp_tag", "checkpoint", t.name, Result(FALSE, 0, World))
        ELSE Return(p, "cp_tag", "checkpoint", t.name,
               Result(TRUE, next_idx,
                 [World EXCEPT !.cpTags = cpTags \cup
                    {[task |-> t.name, index |-> next_idx, commit |-> commit]}]))

\* Two pit processes checkpoint one task whose worktree is edited.
NextTag ==
  \/ \E name \in CpNames : ~HasRow(World, name) /\ Create(name, TRUE, TRUE)
  \/ \E p \in Procs, n \in CpNames : CpAuto(p, n)
  \/ \E p \in Procs : CpList(p)
  \/ \E p \in Procs : CpTag(p)
  \/ \E wt \in CpWorktrees : Edit(wt)

SpecTag == Init /\ [][NextTag]_vars

NextConc ==
  \/ \E name \in CpNames : ~HasRow(World, name) /\ Create(name, TRUE, TRUE)
  \/ \E p \in Procs, n \in CpNames : DeleteBy(p, n)
  \/ \E p \in Procs, n \in CpNames : RunGet(p, n)
  \/ \E p \in Procs : RunExists(p)
  \/ \E p \in Procs : RunCreate(p)
  \/ \E p \in Procs : RunSet(p)
  \/ \E p \in Procs, n \in CpNames : StopGet(p, n)
  \/ \E p \in Procs : StopKill(p)
  \/ \E p \in Procs : StopSet(p)
  \/ \E p \in Procs : ReapList(p)
  \/ \E p \in Procs : ReapExists(p)
  \/ \E p \in Procs : ReapHasNew(p)
  \/ \E p \in Procs : ReapCreate(p)
  \/ \E p \in Procs : ReapSet(p)
  \/ \E wt \in CpWorktrees : AgentCommit(wt)
  \/ \E s \in sessions : SessionEnds(s)

SpecConc == Init /\ [][NextConc]_vars

\* ---------------------------------------------- the dashboard's Enter key
\* handle_enter up to tmux::attach: task::get, launch_task, and the attach
\* that blocks until the operator detaches or the session ends.
EnterLaunch(p, n) ==
  /\ HasRow(World, n)
  /\ LET task == get(World, get_by_name(World, n).id)
         l == launch_task(World, task)
     IN IF l.ok
        THEN Step(p, "idle", l.w, "attached", << task >>) /\ UNCHANGED ret
        ELSE Return(p, "idle", "enter", n, l)

\* handle_enter after tmux::attach has returned
EnterReturn(p) ==
  /\ pc[p] = "attached"
  /\ LET task == loc[p][1] IN
     IF ~session_exists(World, session_name(task.name))
     THEN LET s == set_status(World, task.id, "idle") IN
          Return(p, "attached", "enter", task.name, Result(s.ok, 1, s.w))
     ELSE Return(p, "attached", "enter", task.name, Result(TRUE, 0, World))

\* The dashboard and the command line on one task: tasks are entered from the
\* dashboard, the agent commits, sessions end, and the reaper passes run
\* while no session is attached.
NextDash ==
  \/ \E name \in CpNames : ~HasRow(World, name) /\ Create(name, TRUE, TRUE)
  \/ \E p \in Procs, n \in CpNames : EnterLaunch(p, n)
  \/ \E p \in Procs : EnterReturn(p)
  \/ \E n \in CpNames : CmdCheckpoint(n)
  \/ Reap
  \/ \E wt \in CpWorktrees : AgentCommit(wt)
  \/ \E wt \in CpWorktrees : Edit(wt)
  \/ \E s \in sessions : SessionEnds(s)

SpecDash == Init /\ [][NextDash]_vars

\* Launch cycles of one task name: the task is launched from the command
\* line and from the dashboard, stopped, reaped, deleted and created again.
NextSess ==
  \/ \E name \in CpNames : ~HasRow(World, name) /\ Create(name, TRUE, TRUE)
  \/ \E n \in CpNames : CmdRun(n)
  \/ \E p \in Procs, n \in CpNames : EnterLaunch(p, n)
  \/ \E p \in Procs : EnterReturn(p)
  \/ \E n \in CpNames : CmdStop(n)
  \/ \E n \in CpNames : CmdDelete(n)
  \/ Reap
  \/ \E s \in sessions : SessionEnds(s)

SpecSess == Init /\ [][NextSess]_vars

\* Creating tasks: tasks of both names and of the empty name are created,
\* with each step of the create failing or not, run, stopped and deleted.
NextCreate ==
  \/ \E name \in CreateNames, wtOk, dbOk \in BOOLEAN : CreateWith(name, wtOk, dbOk)
  \/ \E n \in Names : Delete(n)
  \/ \E n \in Names : CmdRun(n)
  \/ \E n \in Names : CmdStop(n)

SpecCreate == Init /\ [][NextCreate]_vars

\* The store from its creation on: it is opened, with or without a failure,
\* and once an open has returned Ok tasks are created, marked and deleted.
InitDb ==
  /\ FreshProject /\ defaultName = "main"
  /\ inp = NoInput /\ out = NoOutput
  /\ schema_version = {}
  /\ applied = [v \in Versions |-> 0]

NextDb ==
  \/ \E fault \in OpenFaults : Open(fault)
  \/ \E name \in Names : Opened /\ ~HasRow(World, name) /\ Create(name, TRUE, TRUE)
  \/ \E n \in Names, status \in Statuses : Opened /\ SetStatus(n, status)
  \/ \E n \in Names : Opened /\ Delete(n)

SpecDb == InitDb /\ [][NextDb]_vars

\* pit config set, unset and get
ConfigCommand(op, key, value, file, val) ==
  /\ \A p \in Procs : pc[p] = "idle"
  /\ config_toml' = file
  /\ ret' = [op |-> op, name |-> key, arg |-> value, ok |-> TRUE, val |-> val]
  /\ UNCHANGED << world, hist, procs, pure, schema >>

ConfigSet(key, value) ==
  ConfigCommand("config_set", key, value, config_set(config_toml, key, value), {})

ConfigUnset(key) ==
  ConfigCommand("config_unset", key, << >>, config_unset(config_toml, key), {})

ConfigGet(key) ==
  ConfigCommand("config_get", key, << >>, config_toml, config_get(config_toml, key))

\* The config store: keys are set, unset and read.
NextConfig ==
  \/ \E key \in ConfigKeys, value \in ConfigValues : ConfigSet(key, value)
  \/ \E key \in ConfigKeys : ConfigUnset(key)
  \/ \E key \in ConfigKeys : ConfigGet(key)

SpecConfig == Init /\ [][NextConfig]_vars

\* One launch per task and the reaper passes of two pit processes: a task
\* is launched once, its agent commits while its session is alive, the
\* session ends and the passes run call by call.
NextPass ==
  \/ \E name \in Names : ~HasRow(World, name) /\ Create(name, TRUE, TRUE)
  \/ \E n \in Names :
       /\ HasRow(World, n) /\ get_by_name(World, n).session_id = NoSessionId
       /\ CmdRun(n)
  \/ \E n \in Names :
       /\ session_exists(World, session_name(n))
       /\ AgentCommit(<<".pit/worktrees/">> \o n)
  \/ \E s \in sessions : SessionEnds(s)
  \/ \E p \in Procs : ReapList(p)
  \/ \E p \in Procs : ReapExists(p)
  \/ \E p \in Procs : ReapHasNew(p)
  \/ \E p \in Procs : ReapCreate(p)
  \/ \E p \in Procs : ReapSet(p)

SpecPass == Init /\ [][NextPass]_vars

\* A step of migrations::run by process p, leading to the store db.
RunStep(p, from, db, to, l) ==
  /\ pc[p] = from
  /\ schema_version' = db.schema_version
  /\ applied' = db.applied
  /\ pc' = [pc EXCEPT ![p] = to]
  /\ loc' = [loc EXCEPT ![p] = l]
  /\ UNCHANGED << world, hist, pure, config >>

\* The step after which p's db::open returns; count migrations were applied.
RunReturn(p, db, ok, count) ==
  /\ RunStep(p, "run_loop", db, "idle", NoLoc)
  /\ ret' = [op |-> "open", name |-> EmptyName, arg |-> NoFault,
             ok |-> ok, val |-> count]

\* run: CREATE TABLE IF NOT EXISTS schema_version and the query of the
\* current version.  The process keeps current_version, the index of the
\* next tuple of MIGRATIONS and the number of migrations it has applied.
RunRead(p) ==
  /\ RunStep(p, "idle", Db, "run_loop", << MaxVersion(schema_version), 1, 0 >>)
  /\ UNCHANGED ret

\* run: one iteration of the loop over MIGRATIONS, its transaction in one
\* step; after the last tuple run returns Ok
RunApply(p) ==
  /\ pc[p] = "run_loop"
  /\ LET current_version == loc[p][1]
         i == loc[p][2]
         count == loc[p][3]
     IN
     IF i > Len(MIGRATIONS) THEN RunReturn(p, Db, TRUE, count)
     ELSE
       LET version == MIGRATIONS[i] IN
       IF version <= current_version
       THEN RunStep(p, "run_loop", Db, "run_loop", << current_version, i + 1, count >>)
              /\ UNCHANGED ret
       ELSE IF applied[version] > 0 \/ version \in schema_version
       THEN RunReturn(p, Db, FALSE, count)
       ELSE RunStep(p, "run_loop",
                    [schema_version |-> schema_version \cup {version},
                     applied |-> [applied EXCEPT ![version] = @ + 1]],
                    "run_loop", << current_version, i + 1, count + 1 >>)
              /\ UNCHANGED ret

\* Two pit processes open the store, from its creation on, and create and
\* mark tasks once it is open.
NextOpen ==
  \/ \E p \in Procs : RunRead(p)
  \/ \E p \in Procs : RunApply(p)
  \/ \E name \in Names : Opened /\ ~HasRow(World, name) /\ Create(name, TRUE, TRUE)
  \/ \E n \in Names, status \in Statuses : Opened /\ SetStatus(n, status)

SpecOpen == InitDb /\ [][NextOpen]_vars

\* Stopping tasks: tasks of both names are created, run, given a shell,
\* marked by the operator and stopped, and sessions end.
NextStop ==
  \/ \E name \in Names : ~HasRow(World, name) /\ Create(name, TRUE, TRUE)
  \/ \E n \in Names, status \in Statuses : SetStatus(n, status)
  \/ \E n \in Names : CmdRun(n)
  \/ \E n \in Names : CmdShell(n)
  \/ \E n \in Names : CmdStop(n)
  \/ \E s \in sessions : SessionEnds(s)

SpecStop == Init /\ [][NextStop]_vars

\* Rolling back a task that may be running: one task is created, run,
\* stopped, edited, checkpointed and rolled back.
NextRb ==
  \/ \E name \in CpNames : ~HasRow(World, name) /\ Create(name, TRUE, TRUE)
  \/ \E n \in CpNames : CmdRun(n)
  \/ \E n \in CpNames : CmdStop(n)
  \/ \E n \in CpNames : CmdCheckpoint(n)
  \/ \E n \in CpNames, target \in Targets : CmdRollback(n, target)
  \/ \E wt \in CpWorktrees : Edit(wt)
  \/ \E s \in sessions : SessionEnds(s)

SpecRb == Init /\ [][NextRb]_vars

\* ------------------------------------------------ listing, call by call
\* checkpoint::list applied to the lines of git tag --list, for every set of
\* up to MaxListLen checkpoints with indices up to MaxListIndex and every
\* order in which the tags can be enumerated.
MaxListIndex == 12

MaxListLen == 3

Injective(f) == \A i, j \in DOMAIN f : i # j => f[i] # f[j]

ListInputs ==
  UNION { { [i \in 1..k |-> TagLine([task |-> <<"a">>, index |-> f[i],
                                      commit |-> RootCommit])] :
            f \in {g \in [1..k -> 1..MaxListIndex] : Injective(g)} } :
          k \in 0..MaxListLen }

InitList ==
  /\ FreshStore /\ defaultName = "main"
  /\ inp \in ListInputs
  /\ out = NoOutput

\* checkpoint::list on the enumeration inp
List ==
  /\ ret.op = "none"
  /\ out' = ListLines(inp)
  /\ ret' = [NoRet EXCEPT !.op = "list", !.val = Len(inp)]
  /\ UNCHANGED << world, hist, procs, inp, schema, config >>

NextList == List

SpecList == InitList /\ [][NextList]_vars

\* ------------------------------------------ agent commands, call by call
\* build_agent_cmd applied to two tasks that differ only in their non-empty
\* prompt text, for every agent kind, with and without a recorded session_id;
\* when none is recorded both calls are given the same new identifier.
AgentKinds ==
  {"claude", "pi", "codex", "aider", "amp", "goose", "custom", "mystery-agent"}

PromptTexts ==
  { <<"Fix `bug` in user's login">>, <<"my-script --flag">>,
    <<"add ", "\"tests\"">> }

CmdTasks ==
  { [id |-> 1, name |-> n, branch |-> <<"pit/">> \o n,
     worktree |-> <<".pit/worktrees/">> \o n, status |-> "idle",
     tmux_session |-> NoSession, session_id |-> sid, agent |-> a,
     prompt |-> p] :
    n \in Names, sid \in {NoSessionId, Uuid(1)}, a \in AgentKinds,
    p \in PromptTexts }

InitCmd ==
  /\ FreshStore /\ defaultName = "main"
  /\ inp \in { << t, [t EXCEPT !.prompt = p] >> :
                t \in CmdTasks, p \in PromptTexts }
  /\ inp[1].prompt # inp[2].prompt
  /\ out = NoOutput

\* build_agent_cmd on each of the two tasks of inp
Build ==
  /\ ret.op = "none"
  /\ out' = << build_agent_cmd(inp[1], Uuid(nextUuid)),
               build_agent_cmd(inp[2], Uuid(nextUuid)) >>
  /\ ret' = [NoRet EXCEPT !.op = "build"]
  /\ UNCHANGED << world, hist, procs, inp, schema, config >>

NextCmd == Build

SpecCmd == InitCmd /\ [][NextCmd]_vars

\* build_agent_cmd applied to one task, for every agent kind, with and
\* without a recorded session_id, with and without a prompt.
FormTasks ==
  CmdTasks \cup {[t EXCEPT !.prompt = NoPrompt] : t \in CmdTasks}

InitForm ==
  /\ FreshStore /\ defaultName = "main"
  /\ inp \in FormTasks
  /\ out = NoOutput

BuildOne ==
  /\ ret.op = "none"
  /\ out' = build_agent_cmd(inp, Uuid(nextUuid))
  /\ ret' = [NoRet EXCEPT !.op = "build_one"]
  /\ UNCHANGED << world, hist, procs, inp, schema, config >>

NextForm == BuildOne

SpecForm == InitForm /\ [][NextForm]_vars

\* ======================================================== task lifecycle
BranchOf(n) == <<"pit/">> \o n

WorktreeOf(n) == <<".pit/worktrees/">> \o n

RowsNamed(n) == {r \in rows : r.name = n}

\* C1: after a successful task create(name), exactly one row exists for
\* that name, its branch is pit/<name> (and that branch exists), its worktree
\* directory .pit/worktrees/<name> exists, and its status is idle.
CreateLeavesOneIdleRow ==
  (ret.op = "create" /\ ret.ok) =>
    /\ Cardinality(RowsNamed(ret.name)) = 1
    /\ \A r \in RowsNamed(ret.name) :
         /\ r.id = ret.val
         /\ r.branch = BranchOf(ret.name)
         /\ branch[r.branch] # NoRef
         /\ r.worktree = WorktreeOf(ret.name)
         /\ worktree[r.worktree] # "absent"
         /\ r.status = "idle"

\* A second task has just been created next to an existing one.
CreateSucceeded ==
  /\ ret.op = "create" /\ ret.ok
  /\ ret.name = <<"shell", "a">>
  /\ Cardinality(rows) = 2

\* C2: after a delete of a task whose status is not running returns
\* successfully, the task's row, its branch pit/<name> and its worktree
\* directory are all gone.
DeleteRemovesEverything ==
  (ret.op \in {"delete", "cmd_delete"} /\ ret.ok) =>
    /\ RowsNamed(ret.name) = {}
    /\ branch[BranchOf(ret.name)] = NoRef
    /\ worktree[WorktreeOf(ret.name)] = "absent"

\* A task has just been deleted while another task is still there.
DeleteSucceeded ==
  /\ ret.op = "delete" /\ ret.ok
  /\ RowsNamed(ret.name) = {}
  /\ rows # {}

\* C3: task::delete on a task whose stored status is running returns an
\* error and changes nothing: rows, branches, worktrees and everything else
\* in the repository, the store and the tmux server stay as they were.
DeleteOfRunningChangesNothing ==
  [][ (ret'.op = "delete" /\ \E r \in RowsNamed(ret'.name) : r.status = "running")
        => (~ret'.ok /\ UNCHANGED world) ]_vars

\* task::delete has just refused a running task.
DeleteOfRunningRefused ==
  /\ ret.op = "delete" /\ ~ret.ok
  /\ \E r \in RowsNamed(ret.name) :
       r.status = "running" /\ worktree[r.worktree] # "absent"

\* C6: in every reachable state, every task whose stored status is running
\* has a recorded multiplexer session name.
RunningHasSession ==
  \A r \in rows : r.status = "running" => r.tmux_session # NoSession

\* C7: after every completed create or delete, successful or not, a task's
\* worktree directory exists if and only if the task's row exists.
WorktreeIffRow ==
  ret.op \in {"create", "delete", "cmd_delete"} =>
    \A n \in Names : (worktree[WorktreeOf(n)] # "absent") <=> (RowsNamed(n) # {})

\* ===================================================== checkpoint engine
Indices(tags) == {t.index : t \in tags}

MaxIndex(tags) ==
  IF tags = {} THEN 0 ELSE CHOOSE i \in Indices(tags) : \A j \in Indices(tags) : j <= i

\* C8: under checkpoint creations, rollbacks to any index and reaper passes,
\* every checkpoint that is created (by the checkpoint command, whose return
\* value is that index, or by the reaper) gets the highest existing index of
\* its task plus one (1 when none exists); the indices of a task are exactly
\* 1..k, and no tag is ever removed or re-created, so no index is reused.
CheckpointIndicesContiguous ==
  [][ /\ cpTags \subseteq cpTags'
      /\ \A n \in Names :
           LET old == TagsOf(cpTags, n)
               new == TagsOf(cpTags', n)
           IN /\ Indices(new) = 1..Cardinality(new)
              /\ \A t \in new \ old : t.index = MaxIndex(old) + 1
              /\ (ret'.op = "checkpoint" /\ ret'.ok /\ ret'.name = n /\ ret' # ret)
                   => /\ ret'.val = MaxIndex(old) + 1
                      /\ \E t \in new \ old : t.index = ret'.val
    ]_vars

\* The checkpoint command has created the third checkpoint of a task that
\* has been run and rolled back.
ThirdCheckpointCreated ==
  /\ ret.op = "checkpoint" /\ ret.ok /\ ret.val = 3
  /\ preRollback[ret.name] # NoRef
  /\ \E r \in rows : r.name = ret.name /\ r.tmux_session # NoSession

\* C35: the first checkpoint created for a newly created task has index 1,
\* also when an earlier task with the same name was checkpointed and then
\* deleted; stated for the checkpoint command that follows the task's create.
FirstCheckpointIsOne ==
  [][ ( /\ ret.op = "create" /\ ret.ok
        /\ ret'.op = "checkpoint" /\ ret'.ok /\ ret'.name = ret.name )
        => ret'.val = 1 ]_vars

NeverDeleted == \A id \in 1..(nextId - 1) : HasId(World, id)

\* C9 as stated: for a task that was never deleted and any two of its
\* checkpoints with consecutive indices i and i+1, the commit tagged by
\* checkpoint i+1 is equal to or a descendant of the commit tagged by
\* checkpoint i, in every sequence of commits, checkpoints and rollbacks.
ConsecutiveCheckpointsDescend ==
  NeverDeleted =>
    \A t1, t2 \in cpTags :
      (t1.task = t2.task /\ t2.index = t1.index + 1)
        => t1.commit \in Ancestors(parent, t2.commit)

\* C9, amended: for checkpoints i and i+1 of a task, if between the creation
\* of checkpoint i and the creation of checkpoint i+1 the task was neither
\* deleted nor rolled back to a checkpoint below i, the commit tagged by
\* checkpoint i+1 is equal to or a descendant of the commit tagged by i.
ForwardCheckpointsDescend ==
  \A t1, t2 \in cpTags :
    (t1.task = t2.task /\ t2.index = t1.index + 1 /\ <<t2.task, t2.index>> \in fwd)
      => t1.commit \in Ancestors(parent, t2.commit)

\* Two checkpoints in a row on different commits, the second created with no
\* deletion or rollback below the first in between, for a task that has been
\* rolled back.
ForwardCheckpointAfterRollback ==
  \E t1, t2 \in cpTags :
    /\ t1.task = t2.task /\ t2.index = t1.index + 1
    /\ <<t2.task, t2.index>> \in fwd
    /\ t1.commit # t2.commit
    /\ preRollback[t1.task] # NoRef

\* C10: after a successful rollback(T, n) the HEAD of T's worktree (the
\* branch checked out there) is the commit tagged by checkpoint n and the
\* call returns n; when no index is given, n is the highest index.
RollbackReachesTarget ==
  (ret.op = "rollback" /\ ret.ok) =>
    /\ \E t \in TagsOf(cpTags, ret.name) :
         /\ t.index = ret.val
         /\ branch[CheckedOut(WorktreeOf(ret.name))] = t.commit
    /\ ret.arg # NoTarget => ret.val = ret.arg
    /\ ret.arg = NoTarget => ret.val = MaxIndex(TagsOf(cpTags, ret.name))

\* A rollback to checkpoint 1 of two or more has moved the branch.
RolledBackToFirst ==
  /\ ret.op = "rollback" /\ ret.ok /\ ret.arg = 1
  /\ Cardinality(TagsOf(cpTags, ret.name)) >= 2
  /\ preRollback[ret.name] # branch[BranchOf(ret.name)]

\* C11: after every successful rollback, also when a safety tag of an
\* earlier rollback exists, pit/pre-rollback/<task> points at the commit that
\* was the worktree's HEAD just before the hard reset: the branch head the
\* rollback found when the worktree was clean, and the auto-save commit made
\* on top of that head when it was dirty.
PreRollbackTagIsPriorHead ==
  [][ (ret'.op = "rollback" /\ ret'.ok) =>
        LET n == ret'.name
            head == branch[CheckedOut(WorktreeOf(n))]
        IN IF worktree[WorktreeOf(n)] = "dirty"
           THEN /\ preRollback'[n] = Len(parent) + 1
                /\ parent' = Append(parent, head)
           ELSE /\ preRollback'[n] = head
                /\ parent' = parent
    ]_vars

\* A second rollback has replaced the safety tag of the first: a commit of
\* the task is reachable neither from the branch nor from the safety tag.
SafetyTagOverwritten ==
  /\ ret.op = "rollback" /\ ret.ok
  /\ NeverDeleted
  /\ \E c \in 1..Len(parent) :
       /\ c \notin Ancestors(parent, branch[BranchOf(ret.name)])
       /\ c \notin Ancestors(parent, preRollback[ret.name])

\* C12: if a checkpoint is created when the branch head is X, then after
\* any commits and uncommitted edits and no further checkpoint, a rollback to
\* the last checkpoint leaves the branch head equal to X. cpHead holds X, the
\* head when the creation of the task's last checkpoint returned.
RollbackToLastRestoresHead ==
  ( /\ ret.op = "rollback" /\ ret.ok
    /\ ret.val = MaxIndex(TagsOf(cpTags, ret.name)) )
  => branch[BranchOf(ret.name)] = cpHead[ret.name]

\* A rollback without index has taken the branch back over two commits made
\* after the last checkpoint.
RolledBackOverCommits ==
  /\ ret.op = "rollback" /\ ret.ok /\ ret.arg = NoTarget
  /\ branch[BranchOf(ret.name)] = cpHead[ret.name]
  /\ RevListCount(parent, cpHead[ret.name], preRollback[ret.name]) >= 2

\* C13: for any dirty worktree, a successful checkpoint creation leaves the
\* worktree clean, and the commit tagged by the new checkpoint contains every
\* file that was uncommitted before the call: it is the commit that git add -A
\* and git commit make from the worktree on top of the head the call found.
CheckpointCommitsDirtyWorktree ==
  [][ ( /\ ret'.op = "checkpoint" /\ ret'.ok
        /\ worktree[WorktreeOf(ret'.name)] = "dirty" )
      => LET n == ret'.name
             new == TagsOf(cpTags', n) \ TagsOf(cpTags, n)
         IN /\ worktree'[WorktreeOf(n)] = "clean"
            /\ parent' = Append(parent, branch[BranchOf(n)])
            /\ branch'[BranchOf(n)] = Len(parent')
            /\ \E t \in new : t.index = ret'.val /\ t.commit = Len(parent')
    ]_vars

\* The state a creation from a dirty worktree leaves: the new checkpoint, and
\* no other, tags the last commit made, the worktree is clean and the branch
\* is at that commit.
CheckpointOfAutoSave ==
  /\ ret.op = "checkpoint" /\ ret.ok
  /\ worktree[WorktreeOf(ret.name)] = "clean"
  /\ branch[BranchOf(ret.name)] = Len(parent)
  /\ \E t \in TagsOf(cpTags, ret.name) :
       /\ t.index = ret.val /\ t.commit = Len(parent)
       /\ \A u \in cpTags : u.commit = t.commit => u = t
       /\ t.commit # RootCommit

\* C14: listing a task's checkpoints yields them with strictly ascending
\* indices, whatever order the tags are enumerated in (with ten or more
\* checkpoints the tag names sort as 1, 10, 2), and yields one checkpoint for
\* every tag.
ListIsAscending ==
  ret.op = "list" =>
    /\ \A i \in 1..(Len(out) - 1) : out[i].index < out[i + 1].index
    /\ Len(out) = Len(inp)
    /\ {out[i].index : i \in 1..Len(out)}
         = {ParseIndex(inp[i].name) : i \in 1..Len(inp)}

\* The tags 1, 10 and 2, enumerated in this order, are listed as 1, 2, 10.
ListedOneTenTwo ==
  /\ ret.op = "list"
  /\ [i \in 1..Len(inp) |-> inp[i].name] = << <<1>>, <<1, 0>>, <<2>> >>
  /\ [i \in 1..Len(out) |-> out[i].index] = << 1, 2, 10 >>

\* C15: has_new_commits returns true exactly when the task branch has at
\* least one commit beyond the repository's default branch if the task has no
\* checkpoint, and exactly when the branch has at least one commit beyond the
\* most recent checkpoint otherwise.
HasNewCommitsIsExact ==
  \A r \in rows :
    branch[r.branch] # NoRef =>
      LET tags == TagsOf(cpTags, r.name)
          base == IF tags = {} THEN mainHead
                  ELSE (CHOOSE t \in tags : t.index = MaxIndex(tags)).commit
      IN has_new_commits(World, r.name, r.branch)
           <=> Ancestors(parent, branch[r.branch]) \ Ancestors(parent, base) # {}

\* ============================================================== create
\* C25: creating a task whose name is already used by an existing task
\* returns an error before any side effect: no branch, worktree or row is
\* created or modified, and the existing task is unchanged.
CreateOfUsedNameChangesNothing ==
  [][ (ret'.op = "create" /\ RowsNamed(ret'.name) # {})
        => (~ret'.ok /\ UNCHANGED world) ]_vars

\* A create without a failing step was refused for the name of a running
\* task.
CreateOfUsedNameRefused ==
  /\ ret.op = "create" /\ ~ret.ok /\ ret.arg = 0
  /\ \E r \in RowsNamed(ret.name) : r.status = "running"

\* C26: if worktree creation fails during task create, the branch pit/<name>
\* that the call just created is deleted before the error is returned, and
\* no row is inserted.
FailedWorktreeRemovesBranch ==
  [][ ( /\ ret'.op = "create" /\ ret'.name # EmptyName
        /\ branch[BranchOf(ret'.name)] = NoRef
        /\ (ret'.arg \in {1, 3} \/ worktree[WorktreeOf(ret'.name)] # "absent") )
        => ( /\ ~ret'.ok
             /\ branch'[BranchOf(ret'.name)] = NoRef
             /\ rows' = rows ) ]_vars

\* A create whose `git worktree add` failed returned with no branch of the
\* name, while another task exists.
WorktreeAddFailed ==
  /\ ret.op = "create" /\ ~ret.ok /\ ret.arg = 1
  /\ ret.name # EmptyName
  /\ branch[BranchOf(ret.name)] = NoRef
  /\ rows # {}

\* C27: if the store insert fails during task create, the failing invocation
\* removes the branch and the worktree it created before it returns the
\* error.
FailedInsertRemovesBranchAndWorktree ==
  [][ ( /\ ret'.op = "create" /\ ret'.name # EmptyName /\ ret'.arg = 2
        /\ branch[BranchOf(ret'.name)] = NoRef
        /\ worktree[WorktreeOf(ret'.name)] = "absent" )
        => ( /\ ~ret'.ok
             /\ branch'[BranchOf(ret'.name)] = NoRef
             /\ worktree'[WorktreeOf(ret'.name)] = "absent" ) ]_vars

\* C28: when checkpoint creation fails because the tag name already exists,
\* the failing call commits no side effect: it leaves no auto-save commit on
\* the branch and no tag.
FailedCheckpointLeavesNothing ==
  [][ \A p \in Procs :
        ( /\ pc[p] = "cp_tag" /\ pc'[p] = "idle" /\ ~ret'.ok
          /\ \E c \in cpTags : c.task = loc[p][1].name /\ c.index = loc[p][3] )
        => (loc[p][2] = 0 /\ cpTags' = cpTags) ]_vars

\* C32: for one ended session of a running task, reaper passes create at
\* most one auto-checkpoint, also when two pit processes run their reaper
\* passes concurrently on the same task.
OneCheckpointPerEndedSession ==
  \A n \in Names : Cardinality(TagsOf(cpTags, n)) <= 1

\* ================================================================ config
\* C31: for the config store, set(k, v) followed by get(k) returns v,
\* unset(k) followed by get(k) returns absent, and after a sequence of sets
\* and unsets a further set or unset leaves a file whose reload is the
\* mapping that the operation made of the loaded one.
ConfigRoundTrips ==
  /\ ret.op = "config_set" => config_get(config_toml, ret.name) = {ret.arg}
  /\ ret.op = "config_unset" => config_get(config_toml, ret.name) = {}
  /\ ret.op \in {"config_set", "config_unset"} =>
       /\ \A k \in ConfigKeys, v \in ConfigValues :
            load_config(config_set(config_toml, k, v))
              = MapInsert(load_config(config_toml), k, v)
       /\ \A k \in ConfigKeys :
            load_config(config_unset(config_toml, k))
              = MapRemove(load_config(config_toml), k)

\* ============================================================ migrations
\* C29: opening the store twice in a row applies each migration exactly
\* once: the second open changes nothing, and afterwards the maximum recorded
\* schema version equals the number of migrations.
SecondOpenChangesNothing ==
  [][ (ret.op = "open" /\ ret.ok /\ ret'.op = "open" /\ ret'.arg = NoFault)
        => ( /\ ret'.ok /\ ret'.val = 0
             /\ UNCHANGED << schema, world >>
             /\ \A v \in Versions : applied'[v] = 1
             /\ MaxVersion(schema_version') = Len(MIGRATIONS) ) ]_vars

\* An open of a store that holds a task applied no migration and returned
\* Ok.
OpenedAgain ==
  /\ ret.op = "open" /\ ret.ok /\ ret.val = 0 /\ ret.arg = NoFault
  /\ rows # {}
  /\ \A v \in Versions : applied[v] = 1

\* C30: a version row is recorded in schema_version only when that
\* migration's SQL was applied successfully: if a migration fails, its
\* version row is absent, the maximum recorded version is unchanged, and the
\* recorded maximum never decreases.
VersionRowOnlyIfApplied ==
  [][ ret'.op = "open" =>
        /\ \A v \in schema_version' : applied'[v] = 1
        /\ MaxVersion(schema_version') >= MaxVersion(schema_version)
        /\ \A k \in Versions :
             (ret'.arg = k /\ k > MaxVersion(schema_version))
               => ( /\ ~ret'.ok
                    /\ k \notin schema_version'
                    /\ applied'[k] = 0
                    /\ MaxVersion(schema_version') = k - 1 ) ]_vars

\* An open applied the first migration and failed in the second.
SecondMigrationFailed ==
  /\ ret.op = "open" /\ ~ret.ok /\ ret.arg = 2 /\ ret.val = 1
  /\ schema_version = {1}
  /\ applied[2] = 0

\* C40: when two processes open the same not-yet-migrated store
\* concurrently, each migration is applied exactly once and neither open
\* fails.
ConcurrentOpensSucceed ==
  /\ ret.op = "open" => ret.ok
  /\ \A v \in Versions : applied[v] <= 1

\* ============================================================== commands
\* C22: the delete command applied to a task whose status is running is
\* refused and removes nothing: the session, the worktree, the branch and the
\* row all remain.
DeleteCommandRefusesRunning ==
  [][ (ret'.op = "cmd_delete" /\ \E r \in RowsNamed(ret'.name) : r.status = "running")
        => (~ret'.ok /\ UNCHANGED world) ]_vars

\* C23: the rollback command applied to a task whose status is running fails
\* before any change: no auto-save commit is made, the pre-rollback tag is
\* not written and the worktree is not reset.
RollbackOfRunningChangesNothing ==
  [][ (ret'.op = "rollback" /\ \E r \in RowsNamed(ret'.name) : r.status = "running")
        => (~ret'.ok /\ UNCHANGED world) ]_vars

\* A rollback was refused for a running task that has a checkpoint and a
\* dirty worktree.
RollbackOfRunningRefused ==
  /\ ret.op = "rollback" /\ ~ret.ok
  /\ \E r \in RowsNamed(ret.name) :
       /\ r.status = "running"
       /\ worktree[r.worktree] = "dirty"
       /\ \E t \in TagsOf(cpTags, r.name) : ret.arg \in {NoTarget, t.index}

\* C37: a rollback that fails because the task has no checkpoint or because
\* the requested index does not exist changes nothing: no auto-save commit is
\* made, the pre-rollback tag is not written or moved, and the worktree HEAD
\* is unchanged.
FailedRollbackChangesNothing ==
  [][ ( /\ ret'.op = "rollback"
        /\ \/ TagsOf(cpTags, ret'.name) = {}
           \/ /\ ret'.arg # NoTarget
              /\ ret'.arg \notin Indices(TagsOf(cpTags, ret'.name)) )
        => (~ret'.ok /\ UNCHANGED world) ]_vars

\* A rollback to an index that does not exist failed for a task that is not
\* running, has a checkpoint and has a dirty worktree.
RollbackToMissingIndexFailed ==
  /\ ret.op = "rollback" /\ ~ret.ok /\ ret.arg # NoTarget
  /\ \E r \in RowsNamed(ret.name) :
       /\ r.status # "running"
       /\ worktree[r.worktree] = "dirty"
       /\ TagsOf(cpTags, r.name) # {}
       /\ ret.arg \notin Indices(TagsOf(cpTags, r.name))

\* C24: the stop command on a running task kills the task's recorded session
\* and sets the task's status to idle; on a task that is not running it
\* changes neither the row nor any session.
StopKillsAndIdles ==
  [][ \A r \in rows :
        (ret'.op = "stop" /\ ret'.name = r.name) =>
          IF r.status = "running"
          THEN /\ ret'.ok
               /\ r.tmux_session \notin sessions'
               /\ rows' = (rows \ {r}) \cup {[r EXCEPT !.status = "idle"]}
               /\ sessions' = sessions \ {r.tmux_session}
          ELSE ret'.ok /\ UNCHANGED world
    ]_vars

\* A running task with a live session was stopped while the other task's
\* session stayed alive.
StoppedOneOfTwo ==
  /\ ret.op = "stop" /\ ret.ok /\ ret.val = 1
  /\ \E r \in RowsNamed(ret.name) :
       /\ r.status = "idle"
       /\ r.tmux_session # NoSession /\ r.tmux_session \notin sessions
  /\ \E u \in rows :
       /\ u.name # ret.name /\ u.status = "running"
       /\ u.tmux_session \in sessions

\* ============================================================== sessions
\* C36: a launch moves a task into running only from idle: launching a task
\* whose status is done or error leaves its status unchanged.
LaunchOnlyFromIdle ==
  [][ ret'.op = "run" =>
        \A r \in rows :
          (r.name = ret'.name /\ r.status \in {"done", "error"})
            => \E u \in rows' : u.id = r.id /\ u.status = r.status ]_vars

\* C38: when a session named pit-<name> already exists, run (and the
\* dashboard launch) succeeds, creates no second session and leaves the
\* task's row (status, session name, session_id) unchanged.
RunOfLiveSessionChangesNothing ==
  [][ /\ ( /\ ret'.op = "run" /\ HasRow(World, ret'.name)
           /\ session_exists(World, session_name(ret'.name)) )
          => (ret'.ok /\ UNCHANGED world)
      /\ \A p \in Procs :
           ( /\ pc[p] = "idle" /\ pc'[p] = "attached"
             /\ session_exists(World, session_name(loc'[p][1].name)) )
             => UNCHANGED world ]_vars

\* pit run returned Ok without launching, for a running task whose session
\* is alive.
RunFoundLiveSession ==
  /\ ret.op = "run" /\ ret.ok /\ ret.val = 0
  /\ \E r \in RowsNamed(ret.name) :
       /\ r.status = "running"
       /\ r.tmux_session = session_name(r.name)
       /\ session_exists(World, r.tmux_session)

\* C34: for any two distinct valid task names, the agent session name of
\* one task is never equal to the shell session name of the other, so a shell
\* opened for one task is never taken for another task's running agent
\* session: when pit run returns Ok for a task, the session pit-<name> is
\* not a shell that was opened for a task of another name.
ShellNeverTakenForAgent ==
  (ret.op = "run" /\ ret.ok) => cmds[session_name(ret.name)] # <<"$SHELL">>

\* The command line cmd names the identifier id.
NamesId(cmd, id) ==
  \E i \in 1..(Len(cmd) - Len(id) + 1) : SubSeq(cmd, i, i + Len(id) - 1) = id

\* C19: once a launch has recorded a session_id for a task, every later
\* launch of that task, through any number of stop, reap and relaunch cycles,
\* uses and records the same session_id: no command changes a recorded
\* session_id, and a launch of a task with a recorded session_id starts the
\* agent with that identifier.
SessionIdIsStable ==
  [][ \A r \in rows :
        r.session_id # NoSessionId =>
          /\ \A u \in rows' : u.id = r.id => u.session_id = r.session_id
          /\ ( /\ session_name(r.name) \notin sessions
               /\ session_name(r.name) \in sessions' )
             => NamesId(cmds'[session_name(r.name)], r.session_id)
    ]_vars

AgentTable(sid) ==
  [ claude |-> [resume |-> <<"claude -r ">> \o sid,
                first  |-> <<"claude --session-id ">> \o sid \o <<" ">>,
                bare   |-> <<"claude --session-id ">> \o sid],
    pi     |-> [resume |-> <<"pi --continue">>,
                first  |-> <<"pi ">>, bare |-> <<"pi">>],
    codex  |-> [resume |-> NoCmd, first |-> <<"codex ">>, bare |-> <<"codex">>],
    aider  |-> [resume |-> NoCmd, first |-> <<"aider --message ">>,
                bare   |-> <<"aider">>],
    amp    |-> [resume |-> NoCmd, first |-> <<"amp --prompt ">>,
                bare   |-> <<"amp">>],
    goose  |-> [resume |-> NoCmd, first |-> <<"goose ">>, bare |-> <<"goose">>] ]

\* The command the table gives for the task t launched with identifier sid.
TableForm(t, sid) ==
  IF t.agent = "custom"
  THEN IF t.prompt # NoPrompt THEN t.prompt
       ELSE <<"echo 'No agent configured. Type your command.'">>
  ELSE LET row == IF t.agent \in DOMAIN AgentTable(sid)
                  THEN AgentTable(sid)[t.agent]
                  ELSE AgentTable(sid)["claude"]
       IN IF t.session_id # NoSessionId /\ row.resume # NoCmd THEN row.resume
          ELSE IF t.prompt # NoPrompt
          THEN row.first \o <<"\"$(cat '">> \o t.worktree
                 \o <<"/.pit-prompt">> \o <<"')\"">>
          ELSE row.bare

\* C21: for every agent kind and every combination of session_id present or
\* absent and prompt empty or non-empty, build_agent_cmd returns the form of
\* the per-agent table: the resume form when a session_id was recorded and
\* the agent has one, otherwise the first-launch form with the prompt read
\* through the .pit-prompt file when the prompt is non-empty, otherwise the
\* no-prompt form; unknown agent names behave as claude.
CommandFollowsTable ==
  ret.op = "build_one" =>
    /\ out.session_id = (IF inp.session_id # NoSessionId THEN inp.session_id
                         ELSE Uuid(nextUuid))
    /\ out.cmd = TableForm(inp, out.session_id)

\* pi with a recorded session_id and a prompt is resumed.
BuiltResumeForm ==
  /\ ret.op = "build_one"
  /\ inp.agent = "pi" /\ inp.session_id # NoSessionId /\ inp.prompt # NoPrompt
  /\ out.cmd = <<"pi --continue">>

\* ================================================================= reaper
\* C4: a reaper pass run after a running task's recorded session has been
\* killed sets the task to idle; if the task's branch has commits beyond its
\* last checkpoint (beyond the default branch when it has no checkpoint)
\* the pass creates exactly one checkpoint for it, with the previous highest
\* index plus one; otherwise the task's checkpoint count is unchanged.
ReapAfterKill ==
  [][ \A r \in rows :
        ( /\ ret'.op = "reap"
          /\ r.status = "running"
          /\ r.tmux_session # NoSession
          /\ r.tmux_session \notin sessions )
        => LET old == TagsOf(cpTags, r.name)
               new == TagsOf(cpTags', r.name)
               base == IF old = {} THEN mainHead
                       ELSE (CHOOSE t \in old : t.index = MaxIndex(old)).commit
               advanced == Ancestors(parent, branch[r.branch])
                             \ Ancestors(parent, base) # {}
           IN /\ \E u \in rows' : u.id = r.id /\ u.status = "idle"
              /\ advanced => /\ Cardinality(new \ old) = 1
                             /\ \A t \in new \ old : t.index = MaxIndex(old) + 1
              /\ ~advanced => Cardinality(new) = Cardinality(old)
    ]_vars

\* C16: whenever an agent session has ended and the task is afterwards
\* recorded as idle, by whichever path made it idle (reaper pass or return
\* from an attached session in the dashboard), the commits the agent added to
\* the branch since the last checkpoint are captured by a new checkpoint:
\* after a step that takes a running task whose session is gone to idle, the
\* branch has no commit beyond the task's last checkpoint (beyond the default
\* branch when the task has none and its branch never advanced).
IdleAfterSessionEndIsCheckpointed ==
  [][ \A r \in rows :
        ( /\ r.status = "running"
          /\ r.tmux_session # NoSession
          /\ r.tmux_session \notin sessions
          /\ \E u \in rows' : u.id = r.id /\ u.status = "idle" )
        => LET tags == TagsOf(cpTags', r.name)
               base == IF tags = {} THEN mainHead
                       ELSE (CHOOSE t \in tags : t.index = MaxIndex(tags)).commit
           IN Ancestors(parent', branch'[r.branch]) \ Ancestors(parent', base) = {}
    ]_vars

\* C18: a reaper pass changes no task whose status is idle, done or error
\* and no running task whose recorded session is still live: their rows are
\* unchanged and no checkpoint is created for them.
ReapLeavesOthersAlone ==
  [][ ret'.op = "reap" =>
        \A r \in rows :
          ( \/ r.status # "running"
            \/ (r.tmux_session # NoSession /\ r.tmux_session \in sessions) )
          => /\ r \in rows'
             /\ TagsOf(cpTags', r.name) = TagsOf(cpTags, r.name)
    ]_vars

\* A pass has reaped one task and checkpointed it, and has left alone a task
\* marked done or error whose branch has commits and no checkpoint.
ReapedOneOfTwo ==
  /\ ret.op = "reap" /\ ret.val = 1
  /\ cpTags # {}
  /\ \E r \in rows :
       /\ r.status \in {"done", "error"}
       /\ TagsOf(cpTags, r.name) = {}
       /\ branch[r.branch] # mainHead

\* C39: a reaper pass is idempotent: a second pass run immediately after a
\* first, with no change to sessions, branches or rows in between, returns 0,
\* changes no task row and creates no checkpoint.
SecondPassReapsNothing ==
  (ret.op = "reap" /\ ret.ok) =>
    LET second == reap_dead(World) IN
    second.ok /\ second.val = 0 /\ second.w = World

\* A pass has set a task to idle and checkpointed it while the other task is
\* running with a live session.
PassReapedAndCheckpointed ==
  /\ ret.op = "reap" /\ ret.ok /\ ret.val = 1
  /\ \E r \in rows :
       /\ r.status = "idle"
       /\ r.tmux_session # NoSession /\ r.tmux_session \notin sessions
       /\ TagsOf(cpTags, r.name) # {}
  /\ \E u \in rows : u.status = "running" /\ u.tmux_session \in sessions

\* ============================================================ concurrency
Quiescent == \A p \in Procs : pc[p] = "idle"

\* C17: a reaper pass never fails the foreground command that triggered it
\* (list, status, dashboard refresh): a failure while checkpointing or while
\* updating a task, including a task deleted by another process during the
\* pass, is swallowed, so every pass returns Ok to the command.
ReapNeverFails == ret.op = "reap" => ret.ok

\* C33: every live agent session pit-<name> belongs to an existing task row:
\* under any interleaving of a launch and a delete of the same task, no agent
\* session remains once its task's row is gone; stated for the reachable
\* states in which both processes have returned from their commands.
AgentSessionHasRow ==
  Quiescent =>
    \A n \in CpNames : session_exists(World, session_name(n)) => HasRow(World, n)

\* C5: under any interleaving of two pit processes, no task whose stored
\* status is not running has a live multiplexer session named pit-<name>;
\* stated for the reachable states in which both processes have returned
\* from their commands.
NoSessionUnlessRunning ==
  Quiescent =>
    \A r \in rows : r.status # "running" => ~session_exists(World, session_name(r.name))

====
